---------------------------- MODULE Spec2Model ----------------------------
(***************************************************************************)
(* A model of the SIARD to SQLite converter (src/siard_converter.py).      *)
(*                                                                         *)
(* Text is modelled as a sequence of characters, each character a string   *)
(* of the module (a one-letter string, or a named token for a character    *)
(* outside ASCII).  Python's None is the value None below.                 *)
(*                                                                         *)
(* The module holds one specification per component of the converter:      *)
(*   SpecSanitize     the name sanitizer (_sanitize_name)                  *)
(*   SpecTypeMapping  the type mapping (TYPE_MAPPING, used by              *)
(*                    _parse_column)                                       *)
(*   SpecQuery        the view query translator                            *)
(*                    (_convert_query_to_sqlite)                           *)
(*   SpecImport       the data importer (_import_table_data and            *)
(*                    _import_table_data_streaming)                        *)
(*   SpecConvert      the metadata model builder and the database          *)
(*                    creation (_parse_metadata,                           *)
(*                    _create_sqlite_database)                             *)
(*   SpecColumns      the same for documents of one column                 *)
(*   SpecMain         a run of the command line from the extracted         *)
(*                    archive to the exit status (main, convert)           *)
(*   SpecLookup       the element text lookup (_get_element_text)          *)
(*   SpecCalls        the calls of convert on one converter, with their    *)
(*                    failures and the temporary directory                 *)
(* Every specification leaves the variables of the other components at     *)
(* their idle values.                                                      *)
(***************************************************************************)
EXTENDS Integers, Sequences, FiniteSets, TLC

VARIABLES
    name,           \* _sanitize_name: the argument
    sanitized,      \* _sanitize_name: the results of successive applications
    column_type,    \* _parse_column: the text of the type element
    sqlite_type,    \* _parse_column: the storage type looked up for it,
                    \* <<>> before the lookup
    view_query,     \* _convert_query_to_sqlite: the parts of the argument
    sqlite_query,   \* _convert_query_to_sqlite: the result, <<>> before the
                    \* call
    table_info,     \* _import_table_data: the table descriptor
    data_file,      \* _import_table_data: the data file of the table: its
                    \* rows, whether its elements are in a namespace and
                    \* whether its size is above the streaming threshold
    table_rows,     \* the rows of the table in the store
    imported,       \* _import_table_data has returned
    metadata_xml,   \* convert: header/metadata.xml of the extracted archive
    schemas,        \* self.schemas, the descriptor tree
    database,       \* the tables and views of the SQLite database
    tables_created, \* _create_sqlite_database: the tables it counted
    views_created,  \* _create_sqlite_database: the views it counted
    args,           \* main: the options of the command line
    content,        \* the data files of the extracted archive, by their
                    \* path below the content folder
    table_data,     \* the rows of the tables of the database, table by
                    \* table in the order of database.tables
    exit_status,    \* main: <<>> while the run goes on, then the status
                    \* the process exits with
    attempts,       \* the tables and views _create_sqlite_database has
                    \* attempted to create, in the order of the attempts
    temp_dir,       \* self.temp_dir: "None" before the first extraction,
                    \* then whether the directory exists or was removed
    calls,          \* the calls of convert on the converter so far
    pc,             \* convert: the last step that has returned
    lookup,         \* _get_element_text: the parent element, the field
                    \* looked up and whether the path has the prefix
    element_text    \* _get_element_text: the result, <<>> before the call

sanVars   == <<name, sanitized>>
typeVars  == <<column_type, sqlite_type>>
queryVars == <<view_query, sqlite_query>>
importVars == <<table_info, data_file, table_rows, imported>>
convertVars == <<metadata_xml, schemas, database, tables_created, views_created,
                 args, content, table_data, exit_status, attempts, temp_dir,
                 calls, pc>>
lookupVars == <<lookup, element_text>>
vars      == <<name, sanitized, column_type, sqlite_type, view_query,
               sqlite_query, table_info, data_file, table_rows, imported,
               metadata_xml, schemas, database, tables_created, views_created,
               args, content, table_data, exit_status, attempts, temp_dir,
               calls, pc, lookup, element_text>>

(***************************************************************************)
(* Python values                                                           *)
(***************************************************************************)
\* None, told apart from every text (a text holds one-character strings)
None == <<"None">>

\* Python's truth value of an optional text: None and "" are false
Truthy(x) == x # None /\ x # <<>>

(***************************************************************************)
(* Characters                                                              *)
(***************************************************************************)
LowerLetters ==
    {"a","b","c","d","e","f","g","h","i","j","k","l","m",
     "n","o","p","q","r","s","t","u","v","w","x","y","z"}

UpperLetters ==
    {"A","B","C","D","E","F","G","H","I","J","K","L","M",
     "N","O","P","Q","R","S","T","U","V","W","X","Y","Z"}

\* "SUP2" is the character U+00B2 (superscript two): str.isdigit() holds
\* for it and the pattern \w matches it, like an ASCII digit.
Digits == {"0","1","2","3","4","5","6","7","8","9","SUP2"}

\* str.isdigit()
isdigit(c) == c \in Digits

\* the characters the pattern \w matches: alphanumerics and the underscore
IsWordChar(c) == c \in LowerLetters \cup UpperLetters \cup Digits \cup {"_"}

\* str.isspace(), the characters str.strip() removes
isspace(c) == c \in {" ", "\n", "\t"}

\* str.upper() of one character
UpperChar(c) ==
    CASE c = "a" -> "A" [] c = "b" -> "B" [] c = "c" -> "C" [] c = "d" -> "D"
      [] c = "e" -> "E" [] c = "f" -> "F" [] c = "g" -> "G" [] c = "h" -> "H"
      [] c = "i" -> "I" [] c = "j" -> "J" [] c = "k" -> "K" [] c = "l" -> "L"
      [] c = "m" -> "M" [] c = "n" -> "N" [] c = "o" -> "O" [] c = "p" -> "P"
      [] c = "q" -> "Q" [] c = "r" -> "R" [] c = "s" -> "S" [] c = "t" -> "T"
      [] c = "u" -> "U" [] c = "v" -> "V" [] c = "w" -> "W" [] c = "x" -> "X"
      [] c = "y" -> "Y" [] c = "z" -> "Z" [] OTHER -> c

\* str.lower() of one character
LowerChar(c) ==
    CASE c = "A" -> "a" [] c = "B" -> "b" [] c = "C" -> "c" [] c = "D" -> "d"
      [] c = "E" -> "e" [] c = "F" -> "f" [] c = "G" -> "g" [] c = "H" -> "h"
      [] c = "I" -> "i" [] c = "J" -> "j" [] c = "K" -> "k" [] c = "L" -> "l"
      [] c = "M" -> "m" [] c = "N" -> "n" [] c = "O" -> "o" [] c = "P" -> "p"
      [] c = "Q" -> "q" [] c = "R" -> "r" [] c = "S" -> "s" [] c = "T" -> "t"
      [] c = "U" -> "u" [] c = "V" -> "v" [] c = "W" -> "w" [] c = "X" -> "x"
      [] c = "Y" -> "y" [] c = "Z" -> "z" [] OTHER -> c

\* str.upper()
upper(s) == [i \in 1..Len(s) |-> UpperChar(s[i])]

\* str.lower()
lower(s) == [i \in 1..Len(s) |-> LowerChar(s[i])]

RECURSIVE lstrip(_)
\* str.lstrip()
lstrip(s) == IF s # <<>> /\ isspace(Head(s)) THEN lstrip(Tail(s)) ELSE s

RECURSIVE rstrip(_)
\* str.rstrip()
rstrip(s) ==
    IF s # <<>> /\ isspace(s[Len(s)]) THEN rstrip(SubSeq(s, 1, Len(s) - 1))
    ELSE s

\* str.strip()
strip(s) == rstrip(lstrip(s))

\* the texts of at most n characters over the characters of A
TextsUpTo(A, n) == UNION {[1..k -> A] : k \in 0..n}

(***************************************************************************)
(* Name sanitizer                                                          *)
(***************************************************************************)
col_prefix == <<"c","o","l","_">>

unnamed == <<"u","n","n","a","m","e","d">>

\* re.sub(r'[^\w]', '_', name)
ReplaceNonWord(s) == [i \in 1..Len(s) |-> IF IsWordChar(s[i]) THEN s[i] ELSE "_"]

\* a sanitizer that prefixes an underscore to every name that does not
\* start with a letter
sanitize_name_prefix_nonalpha(s) ==
    LET r == ReplaceNonWord(s)
        p == IF r # <<>> /\ r[1] \notin LowerLetters \cup UpperLetters
             THEN <<"_">> \o r ELSE r
    IN  IF p = <<>> THEN unnamed ELSE p

\* a sanitizer without the check of the first character
sanitize_name_no_prefix(s) ==
    LET r == ReplaceNonWord(s)
    IN  IF r = <<>> THEN unnamed ELSE r

\* SiardToSqlite._sanitize_name
sanitize_name(s) ==
    LET r == ReplaceNonWord(s)
        p == IF r # <<>> /\ isdigit(r[1]) THEN col_prefix \o r ELSE r
    IN  IF p = <<>> THEN unnamed ELSE p

\* the longest name given to the sanitizer
MaxNameLen == 3

\* the characters of the names given to the sanitizer: a letter, a digit,
\* the underscore, a character outside \w, a space, a non-ASCII digit
NameChars == {"a", "1", "_", "-", " ", "SUP2"}

SanIdle == name = <<>> /\ sanitized = <<>>

SanitizeInit == name \in TextsUpTo(NameChars, MaxNameLen) /\ sanitized = <<>>

\* a caller sanitizes an identifier of the metadata
Sanitize ==
    /\ sanitized = <<>>
    /\ sanitized' = <<sanitize_name(name)>>
    /\ UNCHANGED name

\* a caller sanitizes an identifier that is already sanitized
SanitizeAgain ==
    /\ Len(sanitized) = 1
    /\ sanitized' = Append(sanitized, sanitize_name(sanitized[1]))
    /\ UNCHANGED name

(***************************************************************************)
(* Type mapping                                                            *)
(***************************************************************************)
\* SiardToSqlite.TYPE_MAPPING: the pairs <<source type, storage type>>
TYPE_MAPPING ==
    {
      <<<<"C","H","A","R","A","C","T","E","R">>, "TEXT">>,
      <<<<"V","A","R","C","H","A","R">>, "TEXT">>,
      <<<<"C","H","A","R">>, "TEXT">>,
      <<<<"T","E","X","T">>, "TEXT">>,
      <<<<"C","L","O","B">>, "TEXT">>,
      <<<<"I","N","T","E","G","E","R">>, "INTEGER">>,
      <<<<"I","N","T">>, "INTEGER">>,
      <<<<"B","I","G","I","N","T">>, "INTEGER">>,
      <<<<"S","M","A","L","L","I","N","T">>, "INTEGER">>,
      <<<<"T","I","N","Y","I","N","T">>, "INTEGER">>,
      <<<<"D","E","C","I","M","A","L">>, "REAL">>,
      <<<<"N","U","M","E","R","I","C">>, "REAL">>,
      <<<<"F","L","O","A","T">>, "REAL">>,
      <<<<"D","O","U","B","L","E">>, "REAL">>,
      <<<<"R","E","A","L">>, "REAL">>,
      <<<<"D","A","T","E">>, "TEXT">>,
      <<<<"T","I","M","E">>, "TEXT">>,
      <<<<"T","I","M","E","S","T","A","M","P">>, "TEXT">>,
      <<<<"D","A","T","E","T","I","M","E">>, "TEXT">>,
      <<<<"B","O","O","L","E","A","N">>, "INTEGER">>,
      <<<<"B","O","O","L">>, "INTEGER">>,
      <<<<"B","L","O","B">>, "BLOB">>,
      <<<<"B","I","N","A","R","Y">>, "BLOB">>,
      <<<<"V","A","R","B","I","N","A","R","Y">>, "BLOB">>
    }

\* dict.get(key, default) on TYPE_MAPPING
TypeMappingGet(key, default) ==
    IF \E p \in TYPE_MAPPING : p[1] = key
    THEN (CHOOSE p \in TYPE_MAPPING : p[1] = key)[2]
    ELSE default

\* a lookup that compares the type name as it is written
map_type_case_sensitive(t) == TypeMappingGet(t, "TEXT")

\* a lookup whose default is the storage type of untyped data
map_type_default_blob(t) == TypeMappingGet(upper(t), "BLOB")

\* _parse_column: self.TYPE_MAPPING.get(column_type.upper(), 'TEXT')
map_type(t) == TypeMappingGet(upper(t), "TEXT")

\* str.capitalize()
capitalize(s) ==
    [i \in 1..Len(s) |-> IF i = 1 THEN UpperChar(s[i]) ELSE LowerChar(s[i])]

\* type names the mapping does not know
UnknownTypeNames ==
    {<<"X","M","L">>,
     <<"I","N","T","E","R","V","A","L">>,
     <<"v","a","r","c","h","a","r","2">>,
     <<"I","N","T","4">>,
     <<"D","E","C","I","M","A","L","(","1","0",",","2",")">>,
     <<"B","i","t">>,
     <<"S","T","R","I","N","G">>,
     <<"n","u","m","b","e","r">>}

\* the type names given to the mapping: every name it knows in upper case,
\* in lower case and capitalized, and names it does not know
TypeNames ==
    LET keys == {p[1] : p \in TYPE_MAPPING}
    IN  keys \cup {lower(k) : k \in keys} \cup {capitalize(k) : k \in keys}
             \cup UnknownTypeNames

TypeIdle == column_type = <<>> /\ sqlite_type = <<>>

TypeInit == column_type \in TypeNames /\ sqlite_type = <<>>

\* _parse_column maps the text of the type element to a storage type
MapType ==
    /\ sqlite_type = <<>>
    /\ sqlite_type' = <<map_type(column_type)>>
    /\ UNCHANGED column_type

(***************************************************************************)
(* View query translator                                                   *)
(*                                                                         *)
(* The regular expressions of _convert_query_to_sqlite are modelled on     *)
(* the characters of the query.  A Match operator gives, for a text s and  *)
(* a position i, the position after the match of its pattern that starts   *)
(* at i, or 0 when the pattern does not match at i.                        *)
(***************************************************************************)
\* the characters the pattern \d matches (the decimal digits)
IsDecimal(c) == c \in Digits \ {"SUP2"}

\* "BACKTICK" is the character U+0060, the quote of MySQL identifiers
IsNotBacktick(c) == c # "BACKTICK"

\* the character classes of the patterns
InClass(class, c) ==
    CASE class = "space" -> isspace(c)
      [] class = "word" -> IsWordChar(c)
      [] class = "decimal" -> IsDecimal(c)
      [] class = "not backtick" -> IsNotBacktick(c)

\* the position after the longest run of characters of a class that starts
\* at i (the quantifiers + and * on a character class)
RunEnd(class, s, i) ==
    CHOOSE j \in i..(Len(s) + 1) :
        /\ \A k \in i..(j - 1) : InClass(class, s[k])
        /\ j = Len(s) + 1 \/ ~InClass(class, s[j])

\* s holds the text w at position i, letter case ignored (re.IGNORECASE)
HasAt(s, i, w) ==
    /\ i >= 1
    /\ i + Len(w) - 1 <= Len(s)
    /\ upper(SubSeq(s, i, i + Len(w) - 1)) = upper(w)

\* s holds the text w at position i
HasExactlyAt(s, i, w) ==
    /\ i >= 1
    /\ i + Len(w) - 1 <= Len(s)
    /\ SubSeq(s, i, i + Len(w) - 1) = w

\* the pattern \b matches before position i
WordBoundary(s, i) ==
    (i > 1 /\ i - 1 <= Len(s) /\ IsWordChar(s[i - 1]))
        # (i >= 1 /\ i <= Len(s) /\ IsWordChar(s[i]))

\* str.startswith
startswith(s, w) == HasExactlyAt(s, 1, w)

\* the least number of a set of numbers
Least(S) == CHOOSE x \in S : \A y \in S : x <= y

\* the greatest number of a set of numbers
Greatest(S) == CHOOSE x \in S : \A y \in S : x >= y

\* the parts of a pattern: a literal text (read with re.IGNORECASE), one or
\* more characters of a class, as group g when g is not 0, and \b
Lit(w) == [k |-> "lit", w |-> w, class |-> "", g |-> 0]
Plus(class, g) == [k |-> "plus", w |-> <<>>, class |-> class, g |-> g]
Boundary == [k |-> "b", w |-> <<>>, class |-> "", g |-> 0]

\* the parts of a replacement: a text, and the reference \g to a group
Text(t) == [g |-> 0, t |-> t]
Group(g) == [g |-> g, t |-> <<>>]

\* the part e of a pattern matches at position i
Holds(e, s, i) ==
    CASE e.k = "lit" -> HasAt(s, i, e.w)
      [] e.k = "plus" -> i >= 1 /\ i <= Len(s) /\ InClass(e.class, s[i])
      [] e.k = "b" -> WordBoundary(s, i)

\* the position after the match of the part e at position i
After(e, s, i) ==
    CASE e.k = "lit" -> i + Len(e.w)
      [] e.k = "plus" -> RunEnd(e.class, s, i)
      [] e.k = "b" -> i

RECURSIVE MatchFrom(_, _, _, _)
\* the position after the match at i of the parts of p from the k-th on, or
\* 0 without a match.  In every pattern of the translator the characters
\* that may follow a repetition are outside its class, so that the longest
\* run is the only one that can match
MatchFrom(p, k, s, i) ==
    IF k > Len(p) THEN i
    ELSE IF Holds(p[k], s, i) THEN MatchFrom(p, k + 1, s, After(p[k], s, i))
    ELSE 0

RECURSIVE GroupFrom(_, _, _, _, _)
\* the text of group g in the match of p at i, looked for from part k on
GroupFrom(p, k, g, s, i) ==
    IF p[k].g = g THEN SubSeq(s, i, After(p[k], s, i) - 1)
    ELSE GroupFrom(p, k + 1, g, s, After(p[k], s, i))

RECURSIVE Expand(_, _, _, _, _)
\* the replacement r, from its n-th part on, for the match of p at i
Expand(r, n, p, s, i) ==
    IF n > Len(r) THEN <<>>
    ELSE (IF r[n].g = 0 THEN r[n].t ELSE GroupFrom(p, 1, r[n].g, s, i))
             \o Expand(r, n + 1, p, s, i)

\* the positions from i on where p matches
MatchesFrom(p, s, i) == {j \in i..Len(s) : MatchFrom(p, 1, s, j) > 0}

RECURSIVE ReSub(_, _, _, _)
\* re.sub(p, r, s, flags=re.IGNORECASE) from position i on: the matches,
\* found from left to right, are replaced and the other characters kept
ReSub(p, r, s, i) ==
    IF MatchesFrom(p, s, i) = {} THEN SubSeq(s, i, Len(s))
    ELSE SubSeq(s, i, Least(MatchesFrom(p, s, i)) - 1)
             \o Expand(r, 1, p, s, Least(MatchesFrom(p, s, i)))
             \o ReSub(p, r, s, MatchFrom(p, 1, s, Least(MatchesFrom(p, s, i))))

\* where group 1 of VIEW\s+.*?\s+AS\s+(.+) starts when AS is at position r,
\* or 0: \s+ takes the spaces after AS and leaves one character to (.+)
ViewGroupStart(s, r) ==
    IF ~(HasAt(s, r, <<"A","S">>) /\ r + 2 <= Len(s) /\ isspace(s[r + 2])) THEN 0
    ELSE IF RunEnd("space", s, r + 2) <= Len(s) THEN RunEnd("space", s, r + 2)
    ELSE IF RunEnd("space", s, r + 2) - (r + 2) >= 2 THEN Len(s)
    ELSE 0

\* the spaces from p on after which AS and the rest of the pattern match
ViewCandidates(s, p) ==
    {st \in p..Len(s) :
        isspace(s[st]) /\ ViewGroupStart(s, RunEnd("space", s, st)) > 0}

\* where group 1 starts for the match of VIEW\s+.*?\s+AS\s+(.+) that starts
\* at i, or 0.  The first \s+ takes all the spaces after VIEW, to before p,
\* and .*? grows to the first run of spaces that AS and the rest follow;
\* when there is none, the first \s+ gives back spaces and AS is matched
\* right after them.
ViewMatchFrom(s, i, p) ==
    IF ViewCandidates(s, p) # {}
    THEN ViewGroupStart(s, RunEnd("space", s, Least(ViewCandidates(s, p))))
    ELSE IF p - (i + 4) >= 2 THEN ViewGroupStart(s, p) ELSE 0

\* where group 1 starts for the match of the pattern that starts at i, or 0
ViewMatchAt(s, i) ==
    IF ~(HasAt(s, i, <<"V","I","E","W">>) /\ i + 4 <= Len(s) /\ isspace(s[i + 4])) THEN 0
    ELSE ViewMatchFrom(s, i, RunEnd("space", s, i + 4))

\* the positions where VIEW\s+.*?\s+AS\s+(.+) matches
ViewMatches(s) == {i \in 1..Len(s) : ViewMatchAt(s, i) > 0}

\* re.search(r'VIEW\s+.*?\s+AS\s+(.+)', s, re.IGNORECASE | re.DOTALL):
\* where group 1 of the leftmost match starts, or 0 without a match
ViewSearch(s) ==
    IF ViewMatches(s) = {} THEN 0 ELSE ViewMatchAt(s, Least(ViewMatches(s)))

\* the extraction of the select statement from CREATE ... VIEW ... AS
ExtractSelect(s) ==
    IF startswith(upper(s), <<"C","R","E","A","T","E">>) /\ ViewSearch(s) > 0
    THEN strip(SubSeq(s, ViewSearch(s), Len(s)))
    ELSE s

\* \bALGORITHM=\w+\s+
AlgorithmPattern ==
    <<Boundary, Lit(<<"A","L","G","O","R","I","T","H","M","=">>), Plus("word", 0), Plus("space", 0)>>

\* \bDEFINER=B[^B]+B@B[^B]+B\s+ with B the backtick
DefinerPattern ==
    <<Boundary, Lit(<<"D","E","F","I","N","E","R","=","BACKTICK">>), Plus("not backtick", 0), Lit(<<"BACKTICK","@","BACKTICK">>),
      Plus("not backtick", 0), Lit(<<"BACKTICK">>), Plus("space", 0)>>

\* \bSQL\s+SECURITY\s+\w+\s+
SqlSecurityPattern ==
    <<Boundary, Lit(<<"S","Q","L">>), Plus("space", 0), Lit(<<"S","E","C","U","R","I","T","Y">>),
      Plus("space", 0), Plus("word", 0), Plus("space", 0)>>

\* B([^B]+)B with B the backtick
BackticksPattern == <<Lit(<<"BACKTICK">>), Plus("not backtick", 1), Lit(<<"BACKTICK">>)>>

\* the replacement \1
ReplBackticks == <<Group(1)>>

\* \s+AS\s+(\w+)
AliasPattern == <<Plus("space", 0), Lit(<<"A","S">>), Plus("space", 0), Plus("word", 1)>>

\* the replacement by AS \1 between single spaces
ReplAlias == <<Text(<<" ","A","S"," ">>), Group(1)>>

\* \bTOP\s+\d+\b
TopPattern ==
    <<Boundary, Lit(<<"T","O","P">>), Plus("space", 0), Plus("decimal", 0), Boundary>>

\* \bLIMIT\s+(\d+)\s+OFFSET\s+(\d+)\b
LimitPattern ==
    <<Boundary, Lit(<<"L","I","M","I","T">>), Plus("space", 0), Plus("decimal", 1),
      Plus("space", 0), Lit(<<"O","F","F","S","E","T">>), Plus("space", 0),
      Plus("decimal", 2), Boundary>>

\* a replacement that keeps the two numbers where they are
ReplLimitUnswapped ==
    <<Text(<<"L","I","M","I","T"," ">>), Group(1), Text(<<" ","O","F","F","S","E","T"," ">>), Group(2)>>

\* the replacement LIMIT \2 OFFSET \1
ReplLimit ==
    <<Text(<<"L","I","M","I","T"," ">>), Group(2), Text(<<" ","O","F","F","S","E","T"," ">>), Group(1)>>

\* \btrue\b
TruePattern == <<Boundary, Lit(<<"t","r","u","e">>), Boundary>>

\* \bfalse\b
FalsePattern == <<Boundary, Lit(<<"f","a","l","s","e">>), Boundary>>

\* the substitutions of the translator, in the order of the code
Substitutions ==
    << [pattern |-> AlgorithmPattern, repl |-> <<>>],
       [pattern |-> DefinerPattern, repl |-> <<>>],
       [pattern |-> SqlSecurityPattern, repl |-> <<>>],
       [pattern |-> BackticksPattern, repl |-> ReplBackticks],
       [pattern |-> AliasPattern, repl |-> ReplAlias],
       [pattern |-> TopPattern, repl |-> <<>>],
       [pattern |-> LimitPattern, repl |-> ReplLimit],
       [pattern |-> TruePattern, repl |-> <<Text(<<"1">>)>>],
       [pattern |-> FalsePattern, repl |-> <<Text(<<"0">>)>>] >>

RECURSIVE Substitute(_, _, _)
\* the substitutions from the k-th on, applied to q one after the other
Substitute(subs, k, q) ==
    IF k > Len(subs) THEN q
    ELSE Substitute(subs, k + 1, ReSub(subs[k].pattern, subs[k].repl, q, 1))

RECURSIVE rstrip_chars(_, _)
\* str.rstrip(chars)
rstrip_chars(s, chars) ==
    IF s # <<>> /\ s[Len(s)] \in chars
    THEN rstrip_chars(SubSeq(s, 1, Len(s) - 1), chars)
    ELSE s

\* a translator that removes one trailing semicolon
strip_terminator_once(s) ==
    IF s # <<>> /\ s[Len(s)] = ";" THEN SubSeq(s, 1, Len(s) - 1) ELSE s

\* sqlite_query.rstrip of the semicolon
strip_terminator(s) == rstrip_chars(s, {";"})

\* SiardToSqlite._convert_query_to_sqlite
convert_query_to_sqlite(query) ==
    IF ~Truthy(query) THEN query
    ELSE strip_terminator(Substitute(Substitutions, 1, ExtractSelect(strip(query))))

(***************************************************************************)
(* The view queries given to the translator: a CREATE clause (or none),    *)
(* a select list, a condition, a row limit and trailing semicolons.  A     *)
(* select list, condition or row limit is a pair of the text in the view   *)
(* query and the same text in the dialect of the store.                    *)
(***************************************************************************)
\* the most semicolons at the end of a view query
MaxTerminators == 2

CreateClauses ==
    { <<>>,
      <<"C","R","E","A","T","E"," ","V","I","E","W"," ","v"," ","A",
            "S"," ">>,
      <<"C","R","E","A","T","E"," ","A","L","G","O","R","I","T","H",
            "M","=","U","N","D","E","F","I","N","E","D"," ","V","I","E",
            "W"," ","v"," ","A","S"," ">>,
      <<"C","R","E","A","T","E"," ","A","L","G","O","R","I","T","H",
            "M","=","M","E","R","G","E"," ","D","E","F","I","N","E","R",
            "=","BACKTICK","r","o","o","t","BACKTICK","@","BACKTICK",
            "l","o","c","a","l","h","o","s","t","BACKTICK"," ","S","Q",
            "L"," ","S","E","C","U","R","I","T","Y"," ","D","E","F","I",
            "N","E","R"," ","V","I","E","W"," ","BACKTICK","v",
            "BACKTICK"," ","A","S"," ">>,
      <<"c","r","e","a","t","e"," ","o","r"," ","r","e","p","l","a",
            "c","e"," ","v","i","e","w"," ","v"," ","(","a",","," ","b",
            ")","\n"," "," ","a","s","\n"," "," ">> }

SelectLists ==
    { <<<<"S","E","L","E","C","T"," ","a",",","b"," ","F","R","O","M",
            " ","t">>, <<"S","E","L","E","C","T"," ","a",",","b"," ","F","R","O","M",
            " ","t">>>>,
      <<<<"S","E","L","E","C","T"," ","a"," ","A","S"," ","x",","," ",
            "b"," ","F","R","O","M"," ","t">>, <<"S","E","L","E","C","T"," ","a"," ","A","S"," ","x",","," ",
            "b"," ","F","R","O","M"," ","t">>>> }

Conditions ==
    { <<<<>>, <<>>>>,
      <<<<" ","W","H","E","R","E"," ","f","l","a","g","=","t","r","u",
            "e">>, <<" ","W","H","E","R","E"," ","f","l","a","g","=","1">>>>,
      <<<<" ","W","H","E","R","E"," ","f","l","a","g"," ","="," ","F",
            "A","L","S","E">>, <<" ","W","H","E","R","E"," ","f","l","a","g"," ","="," ","0">>>>,
      <<<<" ","W","H","E","R","E"," ","o","k","=","T","r","u","e"," ",
            "A","N","D"," ","N","O","T"," ","d","e","l","=","f","a","l",
            "s","e">>, <<" ","W","H","E","R","E"," ","o","k","=","1"," ","A","N","D",
            " ","N","O","T"," ","d","e","l","=","0">>>>,
      <<<<" ","W","H","E","R","E"," ","i","s","_","t","r","u","e","=",
            "1">>, <<" ","W","H","E","R","E"," ","i","s","_","t","r","u","e","=",
            "1">>>> }

RowLimits ==
    { <<<<>>, <<>>>>,
      <<<<" ","L","I","M","I","T"," ","5"," ","O","F","F","S","E","T",
            " ","2">>, <<" ","L","I","M","I","T"," ","2"," ","O","F","F","S","E","T",
            " ","5">>>>,
      <<<<" ","l","i","m","i","t"," ","1","0"," "," ","o","f","f","s",
            "e","t"," ","0">>, <<" ","L","I","M","I","T"," ","0"," ","O","F","F","S","E","T",
            " ","1","0">>>>,
      <<<<" ","L","I","M","I","T"," ","7">>, <<" ","L","I","M","I","T"," ","7">>>>,
      <<<<" ","L","I","M","I","T"," ","5"," ","O","F","F","S","E","T",
            " ","2"," ","U","N","I","O","N"," ","S","E","L","E","C","T",
            " ","a",",","b"," ","F","R","O","M"," ","u"," ","L","I","M",
            "I","T"," ","1"," ","O","F","F","S","E","T"," ","3">>,
        <<" ","L","I","M","I","T"," ","2"," ","O","F","F","S","E","T",
            " ","5"," ","U","N","I","O","N"," ","S","E","L","E","C","T",
            " ","a",",","b"," ","F","R","O","M"," ","u"," ","L","I","M",
            "I","T"," ","3"," ","O","F","F","S","E","T"," ","1">>>> }

\* n semicolons
Semicolons(n) == [i \in 1..n |-> ";"]

\* the text of a view query
QueryText(vq) ==
    vq.create \o vq.select[1] \o vq.where[1] \o vq.limit[1]
        \o Semicolons(vq.term)

NoQuery == [create |-> <<>>, select |-> <<<<>>, <<>>>>, where |-> <<<<>>, <<>>>>,
            limit |-> <<<<>>, <<>>>>, term |-> 0]

QueryIdle == view_query = NoQuery /\ sqlite_query = <<>>

QueryInit ==
    /\ view_query \in [create : CreateClauses, select : SelectLists,
                       where : Conditions, limit : RowLimits,
                       term : 0..MaxTerminators]
    /\ sqlite_query = <<>>

\* _create_view translates the query of a view
ConvertQuery ==
    /\ sqlite_query = <<>>
    /\ sqlite_query' = <<convert_query_to_sqlite(QueryText(view_query))>>
    /\ UNCHANGED view_query

(***************************************************************************)
(* XML documents                                                           *)
(*                                                                         *)
(* An element is a record of its local name, its namespace (the empty      *)
(* text for an element in no namespace), the value of its xsi:nil          *)
(* attribute (None without the attribute), its text (None for an element   *)
(* without text) and its child elements.                                   *)
(***************************************************************************)
Element(ns, local, nil, text, kids) ==
    [ns |-> ns, local |-> local, nil |-> nil, text |-> text, kids |-> kids]

\* lxml's tag of an element: {namespace}local, or local without namespace
tag(e) == IF e.ns = <<>> THEN e.local ELSE <<"{">> \o e.ns \o <<"}">> \o e.local

\* str.endswith
endswith(s, w) ==
    Len(w) <= Len(s) /\ SubSeq(s, Len(s) - Len(w) + 1, Len(s)) = w

\* the decimal digits in their order
DecimalDigits == <<"0", "1", "2", "3", "4", "5", "6", "7", "8", "9">>

RECURSIVE str(_)
\* str of a natural number, as the f-strings of the converter format it
str(n) ==
    IF n < 10 THEN <<DecimalDigits[n + 1]>>
    ELSE str(n \div 10) \o <<DecimalDigits[(n % 10) + 1]>>

RECURSIVE DescendantsFrom(_, _)
\* the descendants of e below its k-th and later children, in document order
DescendantsFrom(e, k) ==
    IF k > Len(e.kids) THEN <<>>
    ELSE <<e.kids[k]>> \o DescendantsFrom(e.kids[k], 1)
             \o DescendantsFrom(e, k + 1)

\* the descendants of e in document order (the axis .//)
Descendants(e) == DescendantsFrom(e, 1)

\* the elements of a sequence with the local name (*[local-name()="..."])
WithLocalName(elements, local) ==
    SelectSeq(elements, LAMBDA e : e.local = local)

(***************************************************************************)
(* Metadata model builder                                                  *)
(*                                                                         *)
(* The XPath expressions of the builder are texts, as the code writes      *)
(* them: a step, after .// when the step is looked for among the           *)
(* descendants, or the single character . for the element itself.  A step  *)
(* is a name, with or without a prefix, or *[local-name()="..."].          *)
(***************************************************************************)
\* the positions of a character in a text
PositionsOf(s, c) == {i \in 1..Len(s) : s[i] = c}

\* the step of a path
Step(path) == IF startswith(path, <<".","/","/">>) THEN SubSeq(path, 4, Len(path)) ELSE path

LocalNameOpen == <<"*","[","l","o","c","a","l","-","n","a","m","e","(",")","=",
            "\"">>
LocalNameClose == <<"\"","]">>

\* the path *[local-name()="local"]
AnyNamespace(local) == LocalNameOpen \o local \o LocalNameClose

\* the step is *[local-name()="..."]
IsLocalNameTest(step) ==
    startswith(step, LocalNameOpen) /\ endswith(step, LocalNameClose)

\* the prefix of a name, the empty text for a name without prefix
PrefixOf(step) ==
    IF PositionsOf(step, ":") = {} THEN <<>>
    ELSE SubSeq(step, 1, Least(PositionsOf(step, ":")) - 1)

\* the name without its prefix
LocalPartOf(step) ==
    IF PositionsOf(step, ":") = {} THEN step
    ELSE SubSeq(step, Least(PositionsOf(step, ":")) + 1, Len(step))

\* the element is selected by the step.  A name without prefix selects
\* elements in no namespace, a name with a prefix the elements in the
\* namespace of the prefix.  (A prefix that nsmap does not hold makes lxml
\* raise an error, which the callers catch and treat as no element.)
StepSelects(e, step, nsmap) ==
    IF IsLocalNameTest(step)
    THEN e.local = SubSeq(step, Len(LocalNameOpen) + 1,
                          Len(step) - Len(LocalNameClose))
    ELSE /\ e.local = LocalPartOf(step)
         /\ IF PrefixOf(step) = <<>> THEN e.ns = <<>>
            ELSE PrefixOf(step) \in DOMAIN nsmap /\ e.ns = nsmap[PrefixOf(step)]

\* elem.xpath(path, namespaces=nsmap)
xpath(elem, path, nsmap) ==
    IF path = <<".">> THEN <<elem>>
    ELSE SelectSeq(IF startswith(path, <<".","/","/">>) THEN Descendants(elem) ELSE elem.kids,
                   LAMBDA e : StepSelects(e, Step(path), nsmap))

RECURSIVE Concat(_)
\* the concatenation of the sequences of a sequence
Concat(ss) == IF ss = <<>> THEN <<>> ELSE Head(ss) \o Concat(Tail(ss))

\* _get_element_text: the first of the elements has a text that is not empty
HasText(elements) == elements # <<>> /\ Truthy(elements[1].text)

\* _get_element_text: the alternatives tried after the path itself
alternatives(path) ==
    IF endswith(path, <<"n">>)
    THEN << <<"n">>, AnyNamespace(<<"n">>), <<"n","a","m","e">>, AnyNamespace(<<"n","a","m","e">>) >>
    ELSE IF endswith(path, <<"t","y","p","e">>)
    THEN << <<"t","y","p","e">>, AnyNamespace(<<"t","y","p","e">>) >>
    ELSE IF endswith(path, <<"n","u","l","l","a","b","l","e">>)
    THEN << <<"n","u","l","l","a","b","l","e">>, AnyNamespace(<<"n","u","l","l","a","b","l","e">>) >>
    ELSE IF endswith(path, <<"f","o","l","d","e","r">>)
    THEN << <<"f","o","l","d","e","r">>, AnyNamespace(<<"f","o","l","d","e","r">>) >>
    ELSE IF PositionsOf(path, ":") # {}
    THEN << SubSeq(path, Greatest(PositionsOf(path, ":")) + 1, Len(path)) >>
    ELSE << path >>

\* the text of the first of the elements, stripped, if it is not empty,
\* and otherwise the other value
first_text(elements, otherwise) ==
    IF HasText(elements) THEN strip(elements[1].text) ELSE otherwise

\* the first sequence if it is not empty, and otherwise the second
first_found(elements, otherwise) == IF elements # <<>> THEN elements ELSE otherwise

\* Python's or of two texts, of which each may be None
or_else(text, otherwise) == IF Truthy(text) THEN text ELSE otherwise

\* _get_element_text: the child is one the last resort looks at
is_last_resort(child, path) ==
    \/ child.local \in {<<"n">>, <<"n","a","m","e">>}
           /\ (endswith(path, <<"n">>) \/ endswith(path, <<"n","a","m","e">>))
    \/ child.local = <<"t","y","p","e">> /\ endswith(path, <<"t","y","p","e">>)
    \/ child.local = <<"n","u","l","l","a","b","l","e">> /\ endswith(path, <<"n","u","l","l","a","b","l","e">>)

\* _get_element_text: the last resort, the text of the first child it
\* looks at that has a text, or None
last_resort(parent_elem, path) ==
    first_text(SelectSeq(parent_elem.kids,
                         LAMBDA child : is_last_resort(child, path) /\ Truthy(child.text)),
               None)

RECURSIVE try_alternatives(_, _, _, _, _)
\* _get_element_text: the text found by the k-th or a later alternative,
\* or by the last resort
try_alternatives(parent_elem, alts, k, path, nsmap) ==
    IF k > Len(alts) THEN last_resort(parent_elem, path)
    ELSE first_text(xpath(parent_elem, alts[k], nsmap),
                    try_alternatives(parent_elem, alts, k + 1, path, nsmap))

\* SiardToSqlite._get_element_text: a text, or None
get_element_text(parent_elem, path, nsmap) ==
    first_text(xpath(parent_elem, path, nsmap),
               try_alternatives(parent_elem, alternatives(path), 1, path, nsmap))

\* the lookup of a text with the prefix and, when this gives None or the
\* empty text, without it
get_text(elem, ns_prefix, local, nsmap) ==
    or_else(get_element_text(elem, ns_prefix \o local, nsmap),
            get_element_text(elem, local, nsmap))

\* SiardToSqlite._find_elements_by_xpath
find_elements_by_xpath(parent_elem, element_name, nsmap, ns_prefix) ==
    first_found(xpath(parent_elem, <<".","/","/">> \o ns_prefix \o element_name, nsmap),
        first_found(xpath(parent_elem, <<".","/","/">> \o element_name, nsmap),
                    xpath(parent_elem, <<".","/","/">> \o AnyNamespace(element_name), nsmap)))

\* _parse_column: the column descriptor, as a sequence of one descriptor,
\* or the empty sequence for None
column_info(column_name, original_type, nullable) ==
    IF ~Truthy(column_name) \/ ~Truthy(original_type) THEN <<>>
    ELSE << [name |-> sanitize_name(column_name),
             type |-> map_type(original_type),
             nullable |-> nullable # <<"f","a","l","s","e">>,
             original_type |-> original_type] >>

\* SiardToSqlite._parse_column
parse_column(column_elem, nsmap, ns_prefix) ==
    column_info(get_text(column_elem, ns_prefix, <<"n">>, nsmap),
                get_text(column_elem, ns_prefix, <<"t","y","p","e">>, nsmap),
                get_text(column_elem, ns_prefix, <<"n","u","l","l","a","b","l","e">>, nsmap))

\* the descriptors of the column elements that have one
parse_columns(column_elems, nsmap, ns_prefix) ==
    Concat([i \in 1..Len(column_elems) |->
               parse_column(column_elems[i], nsmap, ns_prefix)])

\* the sanitized name of a text that is not empty, as a sequence
sanitized_if(text) == IF Truthy(text) THEN <<sanitize_name(text)>> ELSE <<>>

\* _parse_foreign_key: the columns of the reference elements, looked up
\* under the name local
reference_columns(ref_elems, local, nsmap, ns_prefix) ==
    Concat([i \in 1..Len(ref_elems) |->
               sanitized_if(get_text(ref_elems[i], ns_prefix, local, nsmap))])

\* a foreign-key descriptor built without a look at the referenced table
fk_info_unchecked(fk_elem, fk_name, referenced_schema, referenced_table, nsmap, ns_prefix) ==
    << [name |-> IF Truthy(fk_name) THEN sanitize_name(fk_name) ELSE None,
        referenced_table |-> sanitize_name(referenced_table),
        referenced_schema |-> referenced_schema,
        source_columns |->
            reference_columns(
                find_elements_by_xpath(fk_elem, <<"r","e","f","e","r","e","n","c","e">>, nsmap, ns_prefix),
                <<"c","o","l","u","m","n">>, nsmap, ns_prefix),
        target_columns |->
            reference_columns(
                find_elements_by_xpath(fk_elem, <<"r","e","f","e","r","e","n","c","e">>, nsmap, ns_prefix),
                <<"r","e","f","e","r","e","n","c","e","d">>, nsmap, ns_prefix)] >>

\* _parse_foreign_key: the descriptor, or the empty sequence for None
fk_info(fk_elem, fk_name, referenced_schema, referenced_table, nsmap, ns_prefix) ==
    IF ~Truthy(referenced_table) THEN <<>>
    ELSE << [name |-> IF Truthy(fk_name) THEN sanitize_name(fk_name) ELSE None,
             referenced_table |-> sanitize_name(referenced_table),
             referenced_schema |-> referenced_schema,
             source_columns |->
                 reference_columns(
                     find_elements_by_xpath(fk_elem, <<"r","e","f","e","r","e","n","c","e">>, nsmap, ns_prefix),
                     <<"c","o","l","u","m","n">>, nsmap, ns_prefix),
             target_columns |->
                 reference_columns(
                     find_elements_by_xpath(fk_elem, <<"r","e","f","e","r","e","n","c","e">>, nsmap, ns_prefix),
                     <<"r","e","f","e","r","e","n","c","e","d">>, nsmap, ns_prefix)] >>

\* SiardToSqlite._parse_foreign_key
parse_foreign_key(fk_elem, nsmap, ns_prefix) ==
    fk_info(fk_elem,
            get_text(fk_elem, ns_prefix, <<"n">>, nsmap),
            get_text(fk_elem, ns_prefix, <<"r","e","f","e","r","e","n","c","e","d","S","c","h","e","m",
            "a">>, nsmap),
            get_text(fk_elem, ns_prefix, <<"r","e","f","e","r","e","n","c","e","d","T","a","b","l","e">>, nsmap),
            nsmap, ns_prefix)

\* _parse_table: the descriptors of the foreignKey elements that have one
parse_foreign_keys(fk_elems, nsmap, ns_prefix) ==
    Concat([i \in 1..Len(fk_elems) |->
               parse_foreign_key(fk_elems[i], nsmap, ns_prefix)])

\* _parse_table: the key columns a primaryKey element gives
pk_columns(column_elems, nsmap) ==
    Concat([i \in 1..Len(column_elems) |->
               sanitized_if(get_element_text(column_elems[i], <<".">>, nsmap))])

RECURSIVE primary_key_all(_, _, _, _)
\* a primary key with the columns of every primaryKey element
primary_key_all(pk_elems, k, nsmap, ns_prefix) ==
    IF k > Len(pk_elems) THEN <<>>
    ELSE pk_columns(find_elements_by_xpath(pk_elems[k], <<"c","o","l","u","m","n">>, nsmap, ns_prefix),
                    nsmap)
             \o primary_key_all(pk_elems, k + 1, nsmap, ns_prefix)

RECURSIVE primary_key(_, _, _, _)
\* _parse_table: the primary key, from the k-th primaryKey element on: the
\* loop ends with the first element that gives a column
primary_key(pk_elems, k, nsmap, ns_prefix) ==
    IF k > Len(pk_elems) THEN <<>>
    ELSE first_found(
             pk_columns(find_elements_by_xpath(pk_elems[k], <<"c","o","l","u","m","n">>, nsmap, ns_prefix),
                        nsmap),
             primary_key(pk_elems, k + 1, nsmap, ns_prefix))

\* a table descriptor built also for a table without columns
table_descriptor_keep_empty(table_elem, table_name, columns, nsmap, ns_prefix, table_index) ==
    IF ~Truthy(table_name) THEN <<>>
    ELSE << [name |-> sanitize_name(table_name),
             columns |-> columns,
             primary_key |->
                 primary_key(
                     find_elements_by_xpath(table_elem, <<"p","r","i","m","a","r","y","K","e","y">>, nsmap, ns_prefix),
                     1, nsmap, ns_prefix),
             foreign_keys |->
                 parse_foreign_keys(
                     find_elements_by_xpath(table_elem, <<"f","o","r","e","i","g","n","K","e","y">>, nsmap, ns_prefix),
                     nsmap, ns_prefix),
             table_index |-> table_index] >>

\* _parse_table: the descriptor of a table with a name and columns, or the
\* empty sequence for None
table_descriptor(table_elem, table_name, columns, nsmap, ns_prefix, table_index) ==
    IF ~Truthy(table_name) \/ columns = <<>> THEN <<>>
    ELSE << [name |-> sanitize_name(table_name),
             columns |-> columns,
             primary_key |->
                 primary_key(
                     find_elements_by_xpath(table_elem, <<"p","r","i","m","a","r","y","K","e","y">>, nsmap, ns_prefix),
                     1, nsmap, ns_prefix),
             foreign_keys |->
                 parse_foreign_keys(
                     find_elements_by_xpath(table_elem, <<"f","o","r","e","i","g","n","K","e","y">>, nsmap, ns_prefix),
                     nsmap, ns_prefix),
             table_index |-> table_index] >>

\* SiardToSqlite._parse_table
parse_table(table_elem, nsmap, ns_prefix, table_index) ==
    table_descriptor(table_elem,
        get_text(table_elem, ns_prefix, <<"n">>, nsmap),
        parse_columns(find_elements_by_xpath(table_elem, <<"c","o","l","u","m","n">>, nsmap, ns_prefix),
                      nsmap, ns_prefix),
        nsmap, ns_prefix, table_index)

\* _parse_view: the query, looked up as query and then as queryOriginal
view_query_text(view_elem, nsmap, ns_prefix) ==
    or_else(get_text(view_elem, ns_prefix, <<"q","u","e","r","y">>, nsmap),
            get_text(view_elem, ns_prefix, <<"q","u","e","r","y","O","r","i","g","i","n","a","l">>, nsmap))

\* _parse_view: the descriptor, or the empty sequence for None
view_info(view_elem, view_name, nsmap, ns_prefix) ==
    IF ~Truthy(view_name) THEN <<>>
    ELSE << [name |-> sanitize_name(view_name),
             query |-> view_query_text(view_elem, nsmap, ns_prefix),
             description |-> get_text(view_elem, ns_prefix, <<"d","e","s","c","r","i","p","t","i","o","n">>, nsmap),
             columns |->
                 parse_columns(
                     find_elements_by_xpath(view_elem, <<"c","o","l","u","m","n">>, nsmap, ns_prefix),
                     nsmap, ns_prefix)] >>

\* SiardToSqlite._parse_view
parse_view(view_elem, nsmap, ns_prefix) ==
    view_info(view_elem, get_text(view_elem, ns_prefix, <<"n">>, nsmap), nsmap, ns_prefix)

\* _parse_schema: the descriptors of the table elements that have one
parse_tables(tables_found, nsmap, ns_prefix) ==
    Concat([i \in 1..Len(tables_found) |->
               parse_table(tables_found[i], nsmap, ns_prefix, i)])

\* _parse_schema: the descriptors of the view elements that have one
parse_views(views_found, nsmap, ns_prefix) ==
    Concat([i \in 1..Len(views_found) |-> parse_view(views_found[i], nsmap, ns_prefix)])

\* _parse_schema: the descriptor of a schema with a name, or the empty
\* sequence for None; without table elements the views are not looked for
schema_info(schema_elem, schema_name, schema_folder_name, tables_found, nsmap, ns_prefix) ==
    IF ~Truthy(schema_name) THEN <<>>
    ELSE << [name |-> schema_name,
             folder |-> or_else(schema_folder_name, schema_name),
             tables |-> parse_tables(tables_found, nsmap, ns_prefix),
             views |->
                 IF tables_found = <<>> THEN <<>>
                 ELSE parse_views(
                          find_elements_by_xpath(schema_elem, <<"v","i","e","w">>, nsmap, ns_prefix),
                          nsmap, ns_prefix)] >>

\* SiardToSqlite._parse_schema
parse_schema(schema_elem, nsmap, ns_prefix) ==
    schema_info(schema_elem,
        get_text(schema_elem, ns_prefix, <<"n">>, nsmap),
        get_text(schema_elem, ns_prefix, <<"f","o","l","d","e","r">>, nsmap),
        find_elements_by_xpath(schema_elem, <<"t","a","b","l","e">>, nsmap, ns_prefix),
        nsmap, ns_prefix)

\* _parse_metadata: the namespace map given to XPath: the default namespace
\* of the root, if it has one, gets the prefix siard
xpath_nsmap(nsmap) ==
    IF None \in DOMAIN nsmap
    THEN [p \in (DOMAIN nsmap \ {None}) \cup {<<"s","i","a","r","d">>} |->
             IF p = <<"s","i","a","r","d">> THEN nsmap[None] ELSE nsmap[p]]
    ELSE nsmap

\* _parse_metadata: the prefix written before the names
xpath_prefix(nsmap) == IF None \in DOMAIN nsmap THEN <<"s","i","a","r","d",":">> ELSE <<>>

\* _parse_metadata: the descriptors of the schema elements found
parse_schemas(schema_elems, nsmap, ns_prefix) ==
    Concat([i \in 1..Len(schema_elems) |->
               parse_schema(schema_elems[i], nsmap, ns_prefix)])

\* SiardToSqlite._parse_metadata: the schemas appended to self.schemas for
\* a metadata document with the root element and its namespace map
parse_metadata(root, nsmap) ==
    parse_schemas(
        xpath(root, <<".","/","/">> \o xpath_prefix(nsmap) \o <<"s","c","h","e","m","a">>, xpath_nsmap(nsmap)),
        xpath_nsmap(nsmap), xpath_prefix(nsmap))

(***************************************************************************)
(* Schema materializer                                                     *)
(*                                                                         *)
(* A CREATE TABLE statement is the record of what its text says: the name  *)
(* of the table, its column definitions, the columns of its PRIMARY KEY    *)
(* constraint and its FOREIGN KEY constraints.  The database is the        *)
(* sequence of the tables and the sequence of the views it holds.          *)
(***************************************************************************)
\* a definition with NOT NULL for every column that is not nullable
column_def_strict(col) ==
    [name |-> col.name, type |-> col.type, not_null |-> ~col.nullable]

\* _create_table: the definition of a column
column_def(col) ==
    [name |-> col.name,
     type |-> col.type,
     not_null |-> ~col.nullable /\ upper(col.original_type) # <<"B","O","O","L","E","A","N">>]

\* _create_table: the constraint of a foreign key, if it gets one
fk_def(fk) ==
    IF fk.source_columns # <<>> /\ fk.target_columns # <<>>
    THEN << [source_cols |-> fk.source_columns,
             referenced_table |-> fk.referenced_table,
             target_cols |-> fk.target_columns] >>
    ELSE <<>>

\* a statement with the constraint of every foreign key, also of one
\* without columns
fk_def_always(fk) ==
    << [source_cols |-> fk.source_columns,
        referenced_table |-> fk.referenced_table,
        target_cols |-> fk.target_columns] >>

\* _create_table: the statement for a table descriptor
create_table_sql(table) ==
    [name |-> table.name,
     column_defs |-> [i \in 1..Len(table.columns) |-> column_def(table.columns[i])],
     primary_key |-> table.primary_key,
     foreign_keys |-> Concat([i \in 1..Len(table.foreign_keys) |->
                                 fk_def(table.foreign_keys[i])])]

\* the elements of a sequence
Range(s) == {s[i] : i \in 1..Len(s)}

\* the names of a sequence of records, without their case
NamesOf(records) == {lower(records[i].name) : i \in 1..Len(records)}

\* cursor.execute of a CREATE TABLE statement: SQLite raises an error for
\* the name of a table or view of the database, for two columns of one
\* name, for a PRIMARY KEY column or a FOREIGN KEY column that is not a
\* column of the table, and for a FOREIGN KEY with more or fewer columns
\* than it references; names are compared without case.  The table a
\* FOREIGN KEY references need not exist.
table_accepted(db, sql) ==
    /\ lower(sql.name) \notin NamesOf(db.tables) \cup NamesOf(db.views)
    /\ \A i, j \in 1..Len(sql.column_defs) :
           lower(sql.column_defs[i].name) = lower(sql.column_defs[j].name) => i = j
    /\ \A i \in 1..Len(sql.primary_key) :
           lower(sql.primary_key[i]) \in NamesOf(sql.column_defs)
    /\ \A i \in 1..Len(sql.foreign_keys) :
           /\ Len(sql.foreign_keys[i].source_cols) = Len(sql.foreign_keys[i].target_cols)
           /\ \A j \in 1..Len(sql.foreign_keys[i].source_cols) :
                  lower(sql.foreign_keys[i].source_cols[j]) \in NamesOf(sql.column_defs)

\* an entry of the log of the statements attempted
Attempt(kind, descriptor) == [kind |-> kind, name |-> descriptor.name]

RECURSIVE create_tables(_, _, _, _, _)
\* _create_sqlite_database: the loop over the tables, from the k-th on;
\* a statement that raises an error leaves the database as it is and is
\* not counted
create_tables(tables, k, db, count, log) ==
    IF k > Len(tables) THEN [db |-> db, tables_created |-> count, log |-> log]
    ELSE IF table_accepted(db, create_table_sql(tables[k]))
         THEN create_tables(tables, k + 1,
                  [db EXCEPT !.tables = Append(@, create_table_sql(tables[k]))],
                  count + 1, Append(log, Attempt("table", tables[k])))
    ELSE create_tables(tables, k + 1, db, count, Append(log, Attempt("table", tables[k])))

\* _create_view: the statement for a view descriptor with a query
create_view_sql(view) ==
    [name |-> view.name, query |-> convert_query_to_sqlite(view.query)]

\* cursor.execute of a CREATE VIEW statement: SQLite raises an error for
\* the name of a table or view of the database and for a text after AS
\* that is not a SELECT statement; the tables of the SELECT need not exist
view_accepted(db, sql) ==
    /\ lower(sql.name) \notin NamesOf(db.tables) \cup NamesOf(db.views)
    /\ startswith(upper(sql.query), <<"S","E","L","E","C","T"," ">>)

\* SiardToSqlite._create_view: the database after the call.  A view
\* without query is skipped, and an error of the statement is caught here
create_view(db, view) ==
    IF ~Truthy(view.query) THEN db
    ELSE IF view_accepted(db, create_view_sql(view))
         THEN [db EXCEPT !.views = Append(@, create_view_sql(view))]
    ELSE db

RECURSIVE create_views(_, _, _)
\* _create_sqlite_database: the loop over the views, from the k-th on,
\* after the tables: every view descriptor is counted
create_views(views, k, created) ==
    IF k > Len(views) THEN created
    ELSE create_views(views, k + 1,
             [created EXCEPT !.db = create_view(@, views[k]),
                             !.views_created = @ + 1,
                             !.log = Append(@, Attempt("view", views[k]))])

\* the tables of all schemas, in the order of the schemas
all_tables(tree) == Concat([i \in 1..Len(tree) |-> tree[i].tables])

\* the views of all schemas, in the order of the schemas
all_views(tree) == Concat([i \in 1..Len(tree) |-> tree[i].views])

\* the database without tables and views
EmptyDatabase == [tables |-> <<>>, views |-> <<>>]

\* the result of a materialization that has not created anything
NothingCreated(db) ==
    [db |-> db, tables_created |-> 0, views_created |-> 0, log |-> <<>>]

RECURSIVE create_by_schema(_, _, _)
\* a materialization that creates the tables and then the views of each
\* schema before it goes on to the next schema
create_by_schema(tree, i, created) ==
    IF i > Len(tree) THEN created
    ELSE create_by_schema(tree, i + 1,
             create_views(tree[i].views, 1,
                 [views_created |-> created.views_created]
                     @@ create_tables(tree[i].tables, 1, created.db,
                                      created.tables_created, created.log)))

\* tables and views created schema by schema
create_schema_by_schema(tree) == create_by_schema(tree, 1, NothingCreated(EmptyDatabase))

\* _create_sqlite_database, for a tree with schemas: the database, the
\* counts and the statements attempted: first the tables of all schemas,
\* then the views of all schemas
create_schema(tree) ==
    create_views(all_views(tree), 1,
        [views_created |-> 0]
            @@ create_tables(all_tables(tree), 1, EmptyDatabase, 0, <<>>))

(***************************************************************************)
(* Metadata documents                                                      *)
(*                                                                         *)
(* A document is described by the style of its namespace, the name of the  *)
(* elements that hold names (n or name) and its schemas.  None for a text  *)
(* says that the document has no element for it.                           *)
(***************************************************************************)
MetadataNamespace == <<"u","r","n",":","s","i","a","r","d">>

XsiNamespace == <<"u","r","n",":","x","s","i">>

\* the namespace styles of a document
Styles == {"none", "default", "prefixed"}

\* the namespace of the elements of a document
NamespaceOf(style) == IF style = "none" THEN <<>> ELSE MetadataNamespace

\* root.nsmap
NsmapOf(style) ==
    IF style = "none" THEN <<>>
    ELSE IF style = "default"
    THEN [p \in {None, <<"x","s","i">>} |-> IF p = None THEN MetadataNamespace ELSE XsiNamespace]
    ELSE [p \in {<<"s">>} |-> MetadataNamespace]

\* an element with a text, if the document has one
Leaves(ns, local, text) ==
    IF text = None THEN <<>> ELSE <<Element(ns, local, None, text, <<>>)>>

\* an element with child elements only
Node(ns, local, kids) == Element(ns, local, None, None, kids)

ColumnShape(column_name, original_type, nullable) ==
    [name |-> column_name, type |-> original_type, nullable |-> nullable]

ColumnElement(ns, n, c) ==
    Node(ns, <<"c","o","l","u","m","n">>,
         Leaves(ns, n, c.name) \o Leaves(ns, <<"t","y","p","e">>, c.type)
             \o Leaves(ns, <<"n","u","l","l","a","b","l","e">>, c.nullable))

\* a primaryKey element with the names of its columns
PrimaryKeyElement(ns, n, pk) ==
    Node(ns, <<"p","r","i","m","a","r","y","K","e","y">>,
         Leaves(ns, n, <<"p","k">>)
             \o [i \in 1..Len(pk) |-> Element(ns, <<"c","o","l","u","m","n">>, None, pk[i], <<>>)])

ReferenceElement(ns, ref) ==
    Node(ns, <<"r","e","f","e","r","e","n","c","e">>,
         Leaves(ns, <<"c","o","l","u","m","n">>, ref[1]) \o Leaves(ns, <<"r","e","f","e","r","e","n","c","e","d">>, ref[2]))

ForeignKeyShape(fk_name, referenced_table, refs) ==
    [name |-> fk_name, table |-> referenced_table, refs |-> refs]

ForeignKeyElement(ns, n, fk) ==
    Node(ns, <<"f","o","r","e","i","g","n","K","e","y">>,
         Leaves(ns, n, fk.name)
             \o Leaves(ns, <<"r","e","f","e","r","e","n","c","e","d","S","c","h","e","m",
            "a">>, <<"s">>)
             \o Leaves(ns, <<"r","e","f","e","r","e","n","c","e","d","T","a","b","l","e">>, fk.table)
             \o [i \in 1..Len(fk.refs) |-> ReferenceElement(ns, fk.refs[i])])

TableShape(named, columns, pks, fks) ==
    [named |-> named, columns |-> columns, pks |-> pks, fks |-> fks]

\* the name of the i-th table of a schema, if the table has one
TableName(t, i) == IF t.named THEN <<"t">> \o str(i) ELSE None

\* the i-th table element of a schema
TableElement(ns, n, t, i) ==
    Node(ns, <<"t","a","b","l","e">>,
         Leaves(ns, n, TableName(t, i))
             \o Leaves(ns, <<"f","o","l","d","e","r">>, <<"t","a","b","l","e">> \o str(i))
             \o (IF t.columns = <<>> THEN <<>>
                 ELSE << Node(ns, <<"c","o","l","u","m","n","s">>,
                             [j \in 1..Len(t.columns) |->
                                 ColumnElement(ns, n, t.columns[j])]) >>)
             \o [j \in 1..Len(t.pks) |-> PrimaryKeyElement(ns, n, t.pks[j])]
             \o (IF t.fks = <<>> THEN <<>>
                 ELSE << Node(ns, <<"f","o","r","e","i","g","n","K","e","y","s">>,
                             [j \in 1..Len(t.fks) |->
                                 ForeignKeyElement(ns, n, t.fks[j])]) >>))

ViewShape(view_name, query) == [name |-> view_name, query |-> query]

ViewElement(ns, n, v) ==
    Node(ns, <<"v","i","e","w">>,
         Leaves(ns, n, v.name) \o Leaves(ns, <<"q","u","e","r","y">>, v.query)
             \o << Node(ns, <<"c","o","l","u","m","n","s">>,
                        << ColumnElement(ns, n,
                               ColumnShape(<<"c">>, <<"I","N","T","E","G","E","R">>, None)) >>) >>)

SchemaShape(named, tables, views) ==
    [named |-> named, tables |-> tables, views |-> views]

SchemaElement(ns, n, s) ==
    Node(ns, <<"s","c","h","e","m","a">>,
         Leaves(ns, n, IF s.named THEN <<"s">> ELSE None)
             \o Leaves(ns, <<"f","o","l","d","e","r">>, <<"f">>)
             \o (IF s.tables = <<>> THEN <<>>
                 ELSE << Node(ns, <<"t","a","b","l","e","s">>,
                             [i \in 1..Len(s.tables) |->
                                 TableElement(ns, n, s.tables[i], i)]) >>)
             \o (IF s.views = <<>> THEN <<>>
                 ELSE << Node(ns, <<"v","i","e","w","s">>,
                             [i \in 1..Len(s.views) |->
                                 ViewElement(ns, n, s.views[i])]) >>))

\* the root element of the document
RootElement(ns, n, shapes) ==
    Node(ns, <<"s","i","a","r","d","A","r","c","h","i","v","e">>,
         Leaves(ns, <<"d","b","n","a","m","e">>, <<"d","b">>)
             \o << Node(ns, <<"s","c","h","e","m","a","s">>,
                        [i \in 1..Len(shapes) |-> SchemaElement(ns, n, shapes[i])]) >>)

\* tree.getroot() of the document
Root(doc) == RootElement(NamespaceOf(doc.style), doc.n, doc.schemas)

\* the most tables of a schema and the most schemas of a document
MaxTables == 2

MaxSchemas == 2

Id == ColumnShape(<<"i","d">>, <<"I","N","T","E","G","E","R">>, <<"f","a","l","s","e">>)

Value == ColumnShape(<<"v">>, <<"V","A","R","C","H","A","R">>, None)

\* a column element without type
Untyped == ColumnShape(<<"u">>, None, <<"t","r","u","e">>)

\* a column element with a blank name
Blank == ColumnShape(<<" ">>, <<"I","N","T","E","G","E","R">>, None)

\* a foreign key with the table it references
Resolved == ForeignKeyShape(<<"f","k">>, <<"t","1">>, << <<<<"v">>, <<"i","d">>>> >>)

\* foreign keys without the table: no element for it, and a blank element
Unresolved == ForeignKeyShape(<<"f","k">>, None, << <<<<"v">>, <<"i","d">>>> >>)

BlankTable == ForeignKeyShape(None, <<" ">>, << <<<<"v">>, <<"i","d">>>> >>)

\* the first table of a schema: a table with two columns and a key, one
\* with a column element of no use, tables without a column of use, a
\* table without name, tables with foreign keys that reference no table,
\* and tables with two primaryKey elements
FirstTables ==
    { TableShape(TRUE, <<Id, Value>>, << <<<<"i","d">>>> >>, <<>>),
      TableShape(TRUE, <<Untyped, Id>>, <<>>, <<>>),
      TableShape(TRUE, <<Untyped, Blank>>, << <<<<"u">>>> >>, <<>>),
      TableShape(TRUE, <<>>, <<>>, <<>>),
      TableShape(FALSE, <<Id>>, <<>>, <<>>),
      TableShape(TRUE, <<Id, Value>>, << <<<<"i","d">>>> >>, <<Unresolved>>),
      TableShape(TRUE, <<Id, Value>>, <<>>, <<BlankTable, Resolved>>),
      TableShape(TRUE, <<Id>>, << <<>>, <<<<"i","d">>>> >>, <<>>),
      TableShape(TRUE, <<Id, Value>>, << <<<<"i","d">>>>, <<<<"v">>>> >>, <<>>) }

\* the later tables of a schema
OtherTables ==
    { TableShape(TRUE, <<Id, Value>>, <<>>, <<Resolved>>),
      TableShape(TRUE, <<Untyped>>, <<>>, <<>>) }

\* the views of a schema: none, or a view with a query and one without
ViewLists ==
    { <<>>, << ViewShape(<<"w">>, <<"S","E","L","E","C","T"," ","1",";">>), ViewShape(<<"x">>, None) >> }

\* the sequences of at most n elements with the first from First and the
\* others from Others
SeqsFrom(First, Others, n) ==
    {<<>>} \cup UNION {{<<f>> \o o : f \in First, o \in [1..(k - 1) -> Others]} : k \in 1..n}

\* the first schema of a document, and the later ones: a schema with one
\* table, a schema with a view and no table, and a schema without name
FirstSchemas ==
    { SchemaShape(TRUE, tables, views) :
          tables \in SeqsFrom(FirstTables, OtherTables, MaxTables), views \in ViewLists }

OtherSchemas ==
    { SchemaShape(TRUE, << TableShape(TRUE, <<Id, Value>>, <<>>, <<>>) >>, <<>>),
      SchemaShape(TRUE, <<>>, << ViewShape(<<"y">>, <<"S","E","L","E","C","T"," ","1">>) >>),
      SchemaShape(FALSE, << TableShape(TRUE, <<Id>>, <<>>, <<>>) >>, <<>>) }

\* the metadata documents
Documents ==
    [file : {"wellformed"}, style : Styles, n : {<<"n">>, <<"n","a","m","e">>},
     schemas : SeqsFrom(FirstSchemas, OtherSchemas, MaxSchemas)]

NoDocument == [file |-> "wellformed", style |-> "none", n |-> <<>>, schemas |-> <<>>]

\* main: the options as argparse gives them when none is on the command line
DefaultArgs == [no_foreign_keys |-> FALSE, no_views |-> FALSE]

\* an archive without content folder
NoContent == <<>>

\* a reader that raises only for a file that does not exist
metadata_readable_if_exists(doc) == doc.file # "absent"

\* _parse_metadata: header/metadata.xml exists and etree.parse reads it
metadata_readable(doc) == doc.file = "wellformed"

\* a converter that leaves the directory of the extraction where it is
cleanup_never(dir) == dir

\* SiardToSqlite._cleanup: the directory of the extraction afterwards
cleanup(dir) == IF dir = "exists" THEN "removed" ELSE dir

\* the tables of a database, each without rows
NoRows(db) == [i \in 1..Len(db.tables) |-> <<>>]

ConvertIdle ==
    /\ metadata_xml = NoDocument
    /\ schemas = <<>>
    /\ database = EmptyDatabase
    /\ tables_created = 0
    /\ views_created = 0
    /\ args = DefaultArgs
    /\ content = NoContent
    /\ table_data = <<>>
    /\ exit_status = <<>>
    /\ attempts = <<>>
    /\ temp_dir = "None"
    /\ calls = 0
    /\ pc = "idle"

\* a converter after _extract_siard: the archive had the document as its
\* header/metadata.xml
ConvertInit ==
    /\ metadata_xml \in Documents
    /\ schemas = <<>>
    /\ database = EmptyDatabase
    /\ tables_created = 0
    /\ views_created = 0
    /\ args = DefaultArgs
    /\ content = NoContent
    /\ table_data = <<>>
    /\ exit_status = <<>>
    /\ attempts = <<>>
    /\ temp_dir = "exists"
    /\ calls = 1
    /\ pc = "extracted"

\* SiardToSqlite._parse_metadata, called by convert.  When the document is
\* missing or cannot be parsed the method raises; convert passes the error
\* on after _cleanup, and main exits with status 1
ParseMetadata ==
    /\ pc = "extracted"
    /\ IF metadata_readable(metadata_xml)
       THEN /\ pc' = "parsed"
            /\ schemas' = schemas \o parse_metadata(Root(metadata_xml),
                                                    NsmapOf(metadata_xml.style))
            /\ UNCHANGED <<exit_status, temp_dir>>
       ELSE /\ pc' = "failed"
            /\ exit_status' = <<1>>
            /\ temp_dir' = cleanup(temp_dir)
            /\ UNCHANGED schemas
    /\ UNCHANGED <<metadata_xml, database, tables_created, views_created, args,
                   content, table_data, attempts, calls>>

\* SiardToSqlite._create_sqlite_database: without schemas the method
\* returns at once; otherwise a database at the output path is removed,
\* the tables are created and then the views, and every view descriptor is
\* counted
CreateSqliteDatabase ==
    /\ pc = "parsed"
    /\ pc' = "created"
    /\ IF schemas = <<>>
       THEN UNCHANGED <<database, table_data, tables_created, views_created, attempts>>
       ELSE /\ database' = create_schema(schemas).db
            /\ table_data' = NoRows(create_schema(schemas).db)
            /\ tables_created' = create_schema(schemas).tables_created
            /\ views_created' = create_schema(schemas).views_created
            /\ attempts' = create_schema(schemas).log
    /\ UNCHANGED <<metadata_xml, schemas, args, content, exit_status, temp_dir,
                   calls>>

(***************************************************************************)
(* Data importer                                                           *)
(*                                                                         *)
(* A value bound to an INSERT is NULL, an integer n, a real number         *)
(* n / 10^k (with the least k) or a text s.                                *)
(***************************************************************************)
Null == [t |-> "NULL", n |-> 0, k |-> 0, s |-> <<>>]
IntegerValue(n) == [t |-> "INTEGER", n |-> n, k |-> 0, s |-> <<>>]
RealValue(n, k) == [t |-> "REAL", n |-> n, k |-> k, s |-> <<>>]
TextValue(s) == [t |-> "TEXT", n |-> 0, k |-> 0, s |-> s]

\* a number text without its sign
Unsigned(s) == IF s # <<>> /\ s[1] \in {"+", "-"} THEN Tail(s) ELSE s

\* the sign of a number text
Sign(s) == IF s # <<>> /\ s[1] = "-" THEN -1 ELSE 1

\* decimal digits, with single underscores allowed between them
IsDigitGroup(b) ==
    /\ b # <<>>
    /\ \A i \in 1..Len(b) : IsDecimal(b[i]) \/ b[i] = "_"
    /\ b[1] # "_" /\ b[Len(b)] # "_"
    /\ \A i \in 1..(Len(b) - 1) : ~(b[i] = "_" /\ b[i + 1] = "_")

\* the value of a decimal digit
DigitValue(c) == CHOOSE n \in 0..9 : DecimalDigits[n + 1] = c

RECURSIVE NatOf(_)
\* the number written by decimal digits
NatOf(d) ==
    IF d = <<>> THEN 0
    ELSE NatOf(SubSeq(d, 1, Len(d) - 1)) * 10 + DigitValue(d[Len(d)])

\* the decimal digits of a text
DigitsOf(b) == SelectSeq(b, IsDecimal)

\* int(s) does not raise ValueError, for a text s without spaces around it
IntAccepts(s) == IsDigitGroup(Unsigned(s))

\* int(s)
int(s) == Sign(s) * NatOf(DigitsOf(Unsigned(s)))

\* the positions of the decimal point in a text
PointsOf(b) == {p \in 1..Len(b) : b[p] = "."}

\* float(s) does not raise ValueError, for a text s without spaces around
\* it that has no exponent and is not one of the names inf, infinity, nan
FloatAccepts(s) ==
    \/ IsDigitGroup(Unsigned(s))
    \/ \E p \in PointsOf(Unsigned(s)) :
           /\ Len(Unsigned(s)) > 1
           /\ p = 1 \/ IsDigitGroup(SubSeq(Unsigned(s), 1, p - 1))
           /\ p = Len(Unsigned(s))
                  \/ IsDigitGroup(SubSeq(Unsigned(s), p + 1, Len(Unsigned(s))))

RECURSIVE Normalized(_, _)
\* the real number n / 10^k with the least k
Normalized(n, k) ==
    IF k > 0 /\ n % 10 = 0 THEN Normalized(n \div 10, k - 1)
    ELSE RealValue(n, k)

\* the number of decimal digits after the decimal point of a text
FractionDigits(b) ==
    IF PointsOf(b) = {} THEN 0
    ELSE Len(DigitsOf(SubSeq(b, Least(PointsOf(b)) + 1, Len(b))))

\* float(s)
float(s) ==
    Normalized(Sign(s) * NatOf(DigitsOf(Unsigned(s))), FractionDigits(Unsigned(s)))

\* _import_table_data: the conversion of the trimmed text of a value
\* element by the type of its column
convert(col_info, value) ==
    IF col_info.type = "INTEGER"
    THEN IF upper(col_info.original_type) = <<"B","O","O","L","E","A","N">>
         THEN IF lower(value) \in {<<"t","r","u","e">>, <<"1">>} THEN IntegerValue(1)
              ELSE IF lower(value) \in {<<"f","a","l","s","e">>, <<"0">>} THEN IntegerValue(0)
              ELSE IntegerValue(0)
         ELSE IF value # <<>>
              THEN IF IntAccepts(value) THEN IntegerValue(int(value)) ELSE Null
              ELSE TextValue(value)
    ELSE IF col_info.type = "REAL" /\ value # <<>>
         THEN IF FloatAccepts(value) THEN float(value) ELSE Null
         ELSE TextValue(value)

\* a coercion that looks at the text before the nil attribute
coerce_text_first(col_info, col_elem) ==
    IF col_elem.text # None THEN convert(col_info, strip(col_elem.text))
    ELSE Null

\* _import_table_data: the value of a value element
coerce(col_info, col_elem) ==
    IF col_elem.nil = <<"t","r","u","e">> THEN Null
    ELSE IF col_elem.text # None THEN convert(col_info, strip(col_elem.text))
    ELSE Null

\* _import_table_data: the value of column i of a row, from the elements
\* that the XPath *[local-name()="c<i>"] finds among the children of the row
cell_value(col_info, col_elements) ==
    IF col_elements # <<>> THEN coerce(col_info, col_elements[1]) ELSE Null

\* _import_table_data: the values bound for a row element
row_data(table, row_elem) ==
    [i \in 1..Len(table.columns) |->
        cell_value(table.columns[i],
                   WithLocalName(row_elem.kids, <<"c">> \o str(i)))]

\* a conversion that gives NULL for a text that is no boolean literal
convert_streaming_strict(col_info, value) ==
    IF col_info.type = "INTEGER" /\ upper(col_info.original_type) = <<"B","O","O","L","E","A","N">>
    THEN IF lower(value) \in {<<"t","r","u","e">>, <<"1">>} THEN IntegerValue(1)
         ELSE IF lower(value) \in {<<"f","a","l","s","e">>, <<"0">>} THEN IntegerValue(0)
         ELSE Null
    ELSE TextValue(value)

\* _import_table_data_streaming: the conversion of the trimmed text of a
\* value element by the type of its column
convert_streaming(col_info, value) ==
    IF col_info.type = "INTEGER"
    THEN IF upper(col_info.original_type) = <<"B","O","O","L","E","A","N">>
         THEN IF lower(value) \in {<<"t","r","u","e">>, <<"1">>} THEN IntegerValue(1)
              ELSE IF lower(value) \in {<<"f","a","l","s","e">>, <<"0">>} THEN IntegerValue(0)
              ELSE IntegerValue(0)
         ELSE IF value # <<>>
              THEN IF IntAccepts(value) THEN IntegerValue(int(value)) ELSE Null
              ELSE TextValue(value)
    ELSE IF col_info.type = "REAL" /\ value # <<>>
         THEN IF FloatAccepts(value) THEN float(value) ELSE Null
         ELSE TextValue(value)

\* _import_table_data_streaming: the value of a value element
coerce_streaming(col_info, col_elem) ==
    IF col_elem.nil = <<"t","r","u","e">> THEN Null
    ELSE IF col_elem.text # None
         THEN convert_streaming(col_info, strip(col_elem.text))
    ELSE Null

\* _import_table_data_streaming: the children of a row whose tag ends with
\* }c<i>
children_streaming(elem, i) ==
    SelectSeq(elem.kids, LAMBDA child : endswith(tag(child), <<"}","c">> \o str(i)))

\* _import_table_data_streaming: the value of column i of a row, from the
\* first of these children
cell_value_streaming(col_info, children) ==
    IF children # <<>> THEN coerce_streaming(col_info, children[1]) ELSE Null

\* _import_table_data_streaming: the values bound for a row element
row_data_streaming(table, elem) ==
    [i \in 1..Len(table.columns) |->
        cell_value_streaming(table.columns[i], children_streaming(elem, i))]

\* _create_table: the column is declared NOT NULL
not_null(col) == ~col.nullable /\ upper(col.original_type) # <<"B","O","O","L","E","A","N">>

\* the store accepts the INSERT of a row: no NULL for a NOT NULL column.
\* (The tables of this part have no key.  A bound value is stored as it is:
\* it has the storage class of its column or is an empty text.)
Accepts(table, values) ==
    \A i \in 1..Len(table.columns) :
        not_null(table.columns[i]) => values[i] # Null

\* a row of the store: the values, and the number, among the row elements
\* the importer found, of the row element they were read from
Stored(src, values) == [src |-> src, values |-> values]

RECURSIVE InsertRows(_, _, _, _)
\* _import_table_data: the rows of the table after the INSERT of the row
\* elements from the k-th on, each executed on its own; a rejected row is
\* logged and left out
InsertRows(table, rows, k, stored) ==
    IF k > Len(rows) THEN stored
    ELSE InsertRows(table, rows, k + 1,
             IF Accepts(table, row_data(table, rows[k]))
             THEN Append(stored, Stored(k, row_data(table, rows[k])))
             ELSE stored)

\* _import_table_data, for a file below the streaming threshold: the rows
\* of the table after the import of the document
import_table_data(table, root) ==
    InsertRows(table, WithLocalName(Descendants(root), <<"r","o","w">>), 1, <<>>)

\* the rows an importer holds before it inserts them together
BATCH_SIZE == 2

RECURSIVE ExecuteManySkipping(_, _, _, _)
\* an insertion of a batch that leaves a rejected row out and goes on with
\* the rows after it
ExecuteManySkipping(table, batch, k, stored) ==
    IF k > Len(batch) THEN [ok |-> TRUE, rows |-> stored]
    ELSE ExecuteManySkipping(table, batch, k + 1,
             IF Accepts(table, batch[k].values) THEN Append(stored, batch[k])
             ELSE stored)

RECURSIVE ExecuteMany(_, _, _, _)
\* cursor.executemany for the rows of a batch from the k-th on: the rows
\* are inserted one after the other until the store rejects one; the rows
\* inserted before it stay in the table
ExecuteMany(table, batch, k, stored) ==
    IF k > Len(batch) THEN [ok |-> TRUE, rows |-> stored]
    ELSE IF Accepts(table, batch[k].values)
         THEN ExecuteMany(table, batch, k + 1, Append(stored, batch[k]))
    ELSE [ok |-> FALSE, rows |-> stored]

\* _import_table_data_streaming: the insertion of the remaining batch
FinalBatch(table, batch, stored) ==
    IF batch # <<>> THEN ExecuteMany(table, batch, 1, stored).rows
    ELSE stored

RECURSIVE StreamRows(_, _, _, _, _)
RECURSIVE FlushBatch(_, _, _, _, _)
\* _import_table_data_streaming: the rows of the table after the row
\* elements from the k-th on, with the batch held so far.  A full batch is
\* inserted; when this fails the loop is left with the batch as it is
StreamRows(table, rows, k, batch, stored) ==
    IF k > Len(rows) THEN FinalBatch(table, batch, stored)
    ELSE IF Len(batch) + 1 >= BATCH_SIZE
         THEN FlushBatch(table, rows, k,
                  Append(batch, Stored(k, row_data_streaming(table, rows[k]))),
                  stored)
    ELSE StreamRows(table, rows, k + 1,
             Append(batch, Stored(k, row_data_streaming(table, rows[k]))),
             stored)

\* _import_table_data_streaming: the insertion of a full batch, after the
\* k-th row element
FlushBatch(table, rows, k, batch, stored) ==
    IF ExecuteMany(table, batch, 1, stored).ok
    THEN StreamRows(table, rows, k + 1, <<>>,
                    ExecuteMany(table, batch, 1, stored).rows)
    ELSE FinalBatch(table, batch,
                    ExecuteMany(table, batch, 1, stored).rows)

\* _import_table_data_streaming: the rows of the table after the import of
\* the document; the row elements are those whose tag ends with }row
import_table_data_streaming(table, root) ==
    StreamRows(table,
               SelectSeq(Descendants(root), LAMBDA elem : endswith(tag(elem), <<"}","r","o","w">>)),
               1, <<>>, <<>>)

(***************************************************************************)
(* The tables and the row-data documents given to the importer: a table    *)
(* of one or two columns, the first of any of the column types below, and  *)
(* a document of at most MaxRows rows, in the namespace of SIARD table     *)
(* documents or in none.  The value element of the first column of the     *)
(* first row is any of FirstCells, or missing; in a later row it is one of *)
(* OtherCells.  The value element of a second column holds a text.         *)
(***************************************************************************)
\* the most rows of a row-data document
MaxRows == 3

TableNamespace == <<"h","t","t","p",":","/","/","w","w","w",".","b","a","r",".",
            "a","d","m","i","n",".","c","h","/","x","m","l","n","s","/",
            "s","i","a","r","d","/","2","/","t","a","b","l","e",".","x",
            "s","d">>

\* the column descriptor _parse_column builds
Column(column_name, original_type, nullable) ==
    [name |-> column_name, type |-> map_type(original_type),
     nullable |-> nullable, original_type |-> original_type]

ColumnTypes ==
    {<<"I","N","T","E","G","E","R">>, <<"B","O","O","L","E","A","N">>, <<"b","o","o","l","e","a","n">>, <<"D","E","C","I","M","A","L">>, <<"V","A","R","C","H","A","R">>, <<"B","L","O","B">>}

FirstColumns == {Column(<<"a">>, t, n) : t \in ColumnTypes, n \in BOOLEAN}

SecondColumn == Column(<<"b">>, <<"V","A","R","C","H","A","R">>, TRUE)

\* the table descriptor _parse_table builds
Table(columns) ==
    [name |-> <<"t">>, columns |-> columns, primary_key |-> <<>>,
     foreign_keys |-> <<>>, table_index |-> 1]

ImportTables ==
    {Table(<<c>>) : c \in FirstColumns} \cup {Table(<<c, SecondColumn>>) : c \in FirstColumns}

\* a value element with its xsi:nil attribute and its text, and the absence
\* of the value element
Cell(nil, text) == [elem |-> TRUE, nil |-> nil, text |-> text]
Missing == [elem |-> FALSE, nil |-> None, text |-> None]

ValueTexts ==
    {None, <<" ">>, <<"t","r","u","e">>, <<" ","T","r","u","e","\n">>, <<"1">>, <<"f","a","l","s","e">>, <<"F","A","L","S","E">>, <<"0">>,
     <<"y","e","s">>, <<"4","2">>, <<"-","7">>, <<"4","x">>, <<"2",".","5">>, <<"a","b","c">>, <<" ","1","0"," ">>}

FirstCells ==
    {Missing} \cup {Cell(None, t) : t \in ValueTexts}
        \cup {Cell(<<"t","r","u","e">>, t) : t \in {None, <<"4","2">>, <<"t","r","u","e">>}}
        \cup {Cell(<<"f","a","l","s","e">>, t) : t \in {None, <<"4","2">>}}
        \cup {Cell(<<"1">>, <<"4","2">>)}

OtherCells == {Cell(None, <<"1">>), Cell(<<"t","r","u","e">>, None), Missing}

\* the sequences of at most n elements of S
SeqsUpTo(S, n) == UNION {[1..k -> S] : k \in 0..n}

DataRows ==
    {<<>>} \cup {<<c>> \o r : c \in FirstCells, r \in SeqsUpTo(OtherCells, MaxRows - 1)}

RECURSIVE ValueElements(_, _, _)
\* the value elements of a row, from the cell of the i-th column on
ValueElements(ns, cells, i) ==
    IF i > Len(cells) THEN <<>>
    ELSE (IF cells[i].elem
          THEN <<Element(ns, <<"c">> \o str(i), cells[i].nil, cells[i].text, <<>>)>>
          ELSE <<>>) \o ValueElements(ns, cells, i + 1)

\* the cells of a row of the table, given the cell of its first column
RowCells(table, cell) ==
    <<cell>> \o [i \in 1..(Len(table.columns) - 1) |-> Cell(None, <<" ","x"," ">>)]

\* the root element of the row-data document of a data file
TableDocument(table, file) ==
    Element(IF file.namespaced THEN TableNamespace ELSE <<>>, <<"t","a","b","l","e">>, None, None,
        [r \in 1..Len(file.rows) |->
            Element(IF file.namespaced THEN TableNamespace ELSE <<>>, <<"r","o","w">>,
                    None, None,
                    ValueElements(IF file.namespaced THEN TableNamespace ELSE <<>>,
                                  RowCells(table, file.rows[r]), 1))])

NoTable == Table(<<>>)
NoFile == [namespaced |-> FALSE, large |-> FALSE, rows |-> <<>>]

ImportIdle ==
    table_info = NoTable /\ data_file = NoFile /\ table_rows = <<>> /\ imported = FALSE

ImportInit ==
    /\ table_info \in ImportTables
    /\ data_file \in [namespaced : BOOLEAN, large : BOOLEAN, rows : DataRows]
    /\ table_rows = <<>>
    /\ imported = FALSE

\* _import_table_data for a table whose data file was found: a file above
\* the streaming threshold is imported by _import_table_data_streaming
ImportTableData ==
    /\ ~imported
    /\ imported' = TRUE
    /\ table_rows' =
           IF data_file.large
           THEN import_table_data_streaming(table_info, TableDocument(table_info, data_file))
           ELSE import_table_data(table_info, TableDocument(table_info, data_file))
    /\ UNCHANGED <<table_info, data_file>>

(***************************************************************************)
(* The data import of a conversion, and the command line                   *)
(*                                                                         *)
(* The data files of the extracted archive are a function from their path  *)
(* below the content folder, a sequence of names, to the data file.  A     *)
(* folder exists when a file lies below it.  The tables of this part have  *)
(* no key, and tables of one name have the same columns.                   *)
(***************************************************************************)
\* Path.exists for a folder
folder_exists(files, folder) ==
    \E p \in DOMAIN files : Len(p) > Len(folder) /\ SubSeq(p, 1, Len(folder)) = folder

\* _import_data: possible_schema_folders
possible_schema_folders(schema, schema_index) ==
    << <<schema.folder>>, <<<<"t","a","b","l","e">> \o str(schema_index)>>, <<schema.name>> >>

\* the names of the data file with those after the name of the table first
possible_files_by_name(schema_folder, table) ==
    << schema_folder \o << table.name \o <<".","x","m","l">> >>,
       schema_folder \o << table.name, table.name \o <<".","x","m","l">> >>,
       schema_folder \o << <<"t","a","b","l","e">> \o str(table.table_index),
                           <<"t","a","b","l","e">> \o str(table.table_index) \o <<".","x","m","l">> >>,
       schema_folder \o << <<"t","a","b","l","e">> \o str(table.table_index) \o <<".","x","m","l">> >> >>

\* _import_table_data: possible_files
possible_files(schema_folder, table) ==
    << schema_folder \o << <<"t","a","b","l","e">> \o str(table.table_index),
                           <<"t","a","b","l","e">> \o str(table.table_index) \o <<".","x","m","l">> >>,
       schema_folder \o << <<"t","a","b","l","e">> \o str(table.table_index) \o <<".","x","m","l">> >>,
       schema_folder \o << table.name \o <<".","x","m","l">> >>,
       schema_folder \o << table.name, table.name \o <<".","x","m","l">> >> >>

\* the tables of the database with the name of an INSERT statement
insert_targets(db, table_name) ==
    {i \in 1..Len(db.tables) : lower(db.tables[i].name) = lower(table_name)}

\* the rows the strategy chosen for the size of the file inserts
imported_rows(table, file) ==
    IF file.large
    THEN import_table_data_streaming(table, TableDocument(table, file))
    ELSE import_table_data(table, TableDocument(table, file))

\* rows with the table descriptor they were imported for, the table_index
\* of the descriptor and the position of its schema in the tree, and with
\* the path of their data file
Tagged(rows, desc, path) ==
    [r \in 1..Len(rows) |-> [desc |-> desc, file |-> path] @@ rows[r]]

\* _import_table_data for a data file that was found: the rows of the
\* tables afterwards.  Without a table of the name every INSERT fails
insert_file(db, data, schema_index, table, path, file) ==
    [i \in 1..Len(data) |->
        IF i \in insert_targets(db, table.name)
        THEN data[i] \o Tagged(imported_rows(table, file),
                               <<schema_index, table.table_index>>, path)
        ELSE data[i]]

\* SiardToSqlite._import_table_data: a table without data file is left out
import_table(files, db, data, schema_index, table, found) ==
    IF found = <<>> THEN data
    ELSE insert_file(db, data, schema_index, table, found[1], files[found[1]])

RECURSIVE import_tables(_, _, _, _, _, _, _)
\* _import_data: the loop over the tables of a schema, from the k-th on
import_tables(files, db, data, schema_index, schema_folder, tables, k) ==
    IF k > Len(tables) THEN data
    ELSE import_tables(files, db,
             import_table(files, db, data, schema_index, tables[k],
                 SelectSeq(possible_files(schema_folder, tables[k]),
                           LAMBDA p : p \in DOMAIN files)),
             schema_index, schema_folder, tables, k + 1)

\* _import_data: the import of a schema; a schema without folder is left out
import_schema(files, db, data, schema_index, schema, folders) ==
    IF folders = <<>> THEN data
    ELSE import_tables(files, db, data, schema_index, folders[1], schema.tables, 1)

RECURSIVE import_data(_, _, _, _, _)
\* SiardToSqlite._import_data: the rows of the tables after the import of
\* the schemas from the i-th on
import_data(files, db, data, tree, i) ==
    IF i > Len(tree) THEN data
    ELSE import_data(files, db,
             import_schema(files, db, data, i, tree[i],
                 SelectSeq(possible_schema_folders(tree[i], i),
                           LAMBDA folder : folder_exists(files, folder))),
             tree, i + 1)

\* SiardToSqlite._extract_siard, called by convert: the archive is
\* extracted to a new directory; for a file that is not a ZIP archive
\* zipfile raises, and convert passes the error on after _cleanup
ExtractSiard ==
    /\ pc = "called"
    /\ IF metadata_xml.file = "not a zip"
       THEN /\ pc' = "failed"
            /\ exit_status' = <<1>>
            /\ temp_dir' = cleanup("exists")
       ELSE /\ pc' = "extracted"
            /\ temp_dir' = "exists"
            /\ UNCHANGED exit_status
    /\ UNCHANGED <<metadata_xml, schemas, database, tables_created, views_created,
                   args, content, table_data, attempts, calls>>

\* _create_sqlite_database when the file at the output path cannot be
\* removed, or no database can be opened there once it was removed: the
\* error leaves convert after _cleanup
CreateSqliteDatabaseFails ==
    /\ pc = "parsed"
    /\ schemas # <<>>
    /\ pc' = "failed"
    /\ exit_status' = <<1>>
    /\ temp_dir' = cleanup(temp_dir)
    /\ \/ UNCHANGED <<database, table_data>>
       \/ database' = EmptyDatabase /\ table_data' = <<>>
    /\ UNCHANGED <<metadata_xml, schemas, tables_created, views_created, args,
                   content, attempts, calls>>

\* SiardToSqlite._import_data, called by convert, which then returns after
\* _cleanup; main reports the conversion as completed and the process
\* exits with status 0
ImportData ==
    /\ pc = "created"
    /\ pc' = "converted"
    /\ table_data' = import_data(content, database, table_data, schemas, 1)
    /\ exit_status' = <<0>>
    /\ temp_dir' = cleanup(temp_dir)
    /\ UNCHANGED <<metadata_xml, schemas, database, tables_created, views_created,
                   args, content, attempts, calls>>

\* _import_data when the database cannot be opened or the commit fails:
\* the rows inserted are not committed, and the error leaves convert after
\* _cleanup
ImportDataFails ==
    /\ pc = "created"
    /\ pc' = "failed"
    /\ exit_status' = <<1>>
    /\ temp_dir' = cleanup(temp_dir)
    /\ UNCHANGED <<metadata_xml, schemas, database, tables_created, views_created,
                   args, content, table_data, attempts, calls>>

\* the most calls of convert on one converter
MaxCalls == 2

\* convert is called again on a converter whose last call has returned:
\* the attributes of the converter are as the last call left them
ConvertAgain ==
    /\ pc = "converted"
    /\ calls < MaxCalls
    /\ pc' = "called"
    /\ calls' = calls + 1
    /\ exit_status' = <<>>
    /\ UNCHANGED <<metadata_xml, schemas, database, tables_created, views_created,
                   args, content, table_data, attempts, temp_dir>>

(***************************************************************************)
(* The runs of the command line: a metadata document that is missing,      *)
(* malformed, without schema, or with one or two schemas; a database at    *)
(* the output path or none; data files under the names the importer looks  *)
(* for, or none.                                                           *)
(***************************************************************************)
\* a table with a foreign key, a table without, and a table element that
\* gives no descriptor
Referencing == TableShape(TRUE, <<Id, Value>>, <<>>, <<Resolved>>)

Plain == TableShape(TRUE, <<Id, Value>>, <<>>, <<>>)

Skipped == TableShape(TRUE, <<Untyped>>, <<>>, <<>>)

\* a schema with a table and a view, one with two tables, and one whose
\* second table element is the first that gives a descriptor
MainSchema == SchemaShape(TRUE, <<Referencing>>, << ViewShape(<<"w">>, <<"S","E","L","E","C","T"," ","1">>) >>)

TwoTables == SchemaShape(TRUE, <<Referencing, Plain>>, <<>>)

SecondOnly == SchemaShape(TRUE, <<Skipped, Plain>>, <<>>)

MainDocuments ==
    [file : {"wellformed"}, style : Styles, n : {<<"n","a","m","e">>},
     schemas : {<<>>, <<MainSchema>>, <<MainSchema, MainSchema>>, <<TwoTables>>,
                <<SecondOnly>>}]
        \cup [file : {"absent", "malformed"}, style : {"default"}, n : {<<"n","a","m","e">>},
              schemas : {<<MainSchema>>}]

\* a database that is at the output path before the run
OldDatabase ==
    [tables |-> << [name |-> <<"o","l","d">>,
                    column_defs |-> << [name |-> <<"a">>, type |-> "TEXT",
                                        not_null |-> FALSE] >>,
                    primary_key |-> <<>>, foreign_keys |-> <<>>] >>,
     views |-> <<>>]

OldRows == << Tagged(<< Stored(1, <<TextValue(<<"x">>)>>) >>, <<0, 0>>, <<>>) >>

\* data files of two rows in the namespace of SIARD table documents
SmallFile ==
    [namespaced |-> TRUE, large |-> FALSE,
     rows |-> <<Cell(None, <<"4","2">>), Cell(None, <<"-","7">>)>>]

LargeFile ==
    [namespaced |-> TRUE, large |-> TRUE,
     rows |-> <<Cell(None, <<"4","2">>), Cell(None, <<"1">>)>>]

\* the paths the importer looks for, for the first table of a schema
\* with the folder f
FirstTableFiles ==
    { <<<<"f">>, <<"t","a","b","l","e","1">>, <<"t","a","b","l","e","1",".","x","m","l">>>>, <<<<"f">>, <<"t","a","b","l","e","1",".","x","m","l">>>>,
      <<<<"f">>, <<"t","1",".","x","m","l">>>>, <<<<"f">>, <<"t","1">>, <<"t","1",".","x","m","l">>>> }

\* the content folders: none; files for the first table under some of the
\* four names; a file for it in a folder of the name of the schema; a file
\* for the second table only; and a file in the folder table2, which the
\* importer looks for for the second schema only
Contents ==
    {[p \in S |-> SmallFile] : S \in SUBSET FirstTableFiles}
        \cup { [p \in {<<<<"s">>, <<"t","1",".","x","m","l">>>>} |-> LargeFile],
               [p \in {<<<<"f">>, <<"t","a","b","l","e","2",".","x","m","l">>>>} |-> SmallFile],
               [p \in {<<<<"t","a","b","l","e","2">>, <<"t","a","b","l","e","1",".","x","m","l">>>>} |-> SmallFile] }

MainInit ==
    /\ metadata_xml \in MainDocuments
    /\ schemas = <<>>
    /\ \/ database = EmptyDatabase /\ table_data = <<>>
       \/ database = OldDatabase /\ table_data = OldRows
    /\ tables_created = 0
    /\ views_created = 0
    /\ args \in [no_foreign_keys : BOOLEAN, no_views : BOOLEAN]
    /\ content \in Contents
    /\ exit_status = <<>>
    /\ attempts = <<>>
    /\ temp_dir = "exists"
    /\ calls = 1
    /\ pc = "extracted"

\* the calls of convert on a converter: the archive is extracted, its
\* metadata parsed, the database created and the data imported, each of
\* which may fail, and convert may be called again
CallDocuments ==
    [file : {"wellformed"}, style : {"default"}, n : {<<"n","a","m","e">>},
     schemas : {<<>>, <<MainSchema>>}]
        \cup [file : {"absent", "malformed", "not a zip"}, style : {"default"},
              n : {<<"n","a","m","e">>}, schemas : {<<MainSchema>>}]

CallsInit ==
    /\ metadata_xml \in CallDocuments
    /\ schemas = <<>>
    /\ \/ database = EmptyDatabase /\ table_data = <<>>
       \/ database = OldDatabase /\ table_data = OldRows
    /\ tables_created = 0
    /\ views_created = 0
    /\ args = DefaultArgs
    /\ content \in {NoContent,
                     [p \in {<<<<"f">>, <<"t","a","b","l","e","1">>, <<"t","a","b","l","e","1",".","x","m","l">>>>} |-> SmallFile],
                     [p \in {<<<<"s">>, <<"t","1",".","x","m","l">>>>} |-> LargeFile]}
    /\ exit_status = <<>>
    /\ attempts = <<>>
    /\ temp_dir = "None"
    /\ calls = 1
    /\ pc = "called"

(***************************************************************************)
(* Metadata documents with one table of one column, for the column's      *)
(* type and its nullable element                                           *)
(***************************************************************************)
\* the type names of the column
DeclaredTypes ==
    {<<"I","N","T","E","G","E","R">>, <<"V","A","R","C","H","A","R">>, <<"B","O","O","L","E","A","N">>, <<"b","o","o","l","e","a","n">>, <<"B","o","o","l","e","a","n">>, <<"B","O","O","L">>, <<"b","o","o","l">>}

\* the texts of the nullable element, and None for a column without one
NullableTexts ==
    {None, <<"f","a","l","s","e">>, <<"t","r","u","e">>, <<"F","A","L","S","E">>, <<" ","f","a","l","s","e"," ">>, <<"0">>, <<" ">>}

ColumnDocuments ==
    {[file |-> "wellformed", style |-> style, n |-> n,
      schemas |-> << SchemaShape(TRUE,
                         << TableShape(TRUE, <<ColumnShape(<<"c">>, type, nullable)>>,
                                       <<>>, <<>>) >>,
                         <<>>) >>] :
        style \in Styles, n \in {<<"n">>, <<"n","a","m","e">>},
        type \in DeclaredTypes, nullable \in NullableTexts}

ColumnsInit ==
    /\ metadata_xml \in ColumnDocuments
    /\ schemas = <<>>
    /\ database = EmptyDatabase
    /\ tables_created = 0
    /\ views_created = 0
    /\ args = DefaultArgs
    /\ content = NoContent
    /\ table_data = <<>>
    /\ exit_status = <<>>
    /\ attempts = <<>>
    /\ temp_dir = "exists"
    /\ calls = 1
    /\ pc = "extracted"

(***************************************************************************)
(* Scalar field lookups                                                    *)
(*                                                                         *)
(* The parent element of a lookup has, in either order, an element for    *)
(* the field (or none) and an element name (or none), in the namespace    *)
(* of the document.                                                        *)
(***************************************************************************)
\* the scalar fields the parsers look up
Fields ==
    {<<"n">>, <<"t","y","p","e">>, <<"n","u","l","l","a","b","l","e">>, <<"f","o","l","d","e","r">>, <<"q","u","e","r","y">>, <<"d","e","s","c","r","i","p","t","i","o","n">>,
     <<"r","e","f","e","r","e","n","c","e","d","S","c","h","e","m",
            "a">>, <<"r","e","f","e","r","e","n","c","e","d","T","a","b","l","e">>}

\* the element of the field: absent, without text, blank, or with a text
FieldTexts == {<<"absent">>, None, <<" ">>, <<" ","a"," ">>}

\* the element name: absent, or with a text
NameTexts == {<<"absent">>, <<"b">>}

Lookups ==
    [style : Styles, field : Fields, qualified : BOOLEAN, text : FieldTexts,
     other : NameTexts, field_first : BOOLEAN]

\* the element of a name with a text, if the parent has one
Child(ns, local, text) ==
    IF text = <<"absent">> THEN <<>> ELSE <<Element(ns, local, None, text, <<>>)>>

\* the parent element of a lookup
Parent(l) ==
    Node(NamespaceOf(l.style), <<"p","a","r","e","n","t">>,
         IF l.field_first
         THEN Child(NamespaceOf(l.style), l.field, l.text)
                  \o Child(NamespaceOf(l.style), <<"n","a","m","e">>, l.other)
         ELSE Child(NamespaceOf(l.style), <<"n","a","m","e">>, l.other)
                  \o Child(NamespaceOf(l.style), l.field, l.text))

\* the path the parsers give: the field, with ns_prefix or without
PathOf(l) ==
    IF l.qualified THEN xpath_prefix(NsmapOf(l.style)) \o l.field ELSE l.field

NoLookup ==
    [style |-> "none", field |-> <<>>, qualified |-> FALSE, text |-> <<"absent">>,
     other |-> <<"absent">>, field_first |-> TRUE]

LookupIdle == lookup = NoLookup /\ element_text = <<>>

LookupInit == lookup \in Lookups /\ element_text = <<>>

\* SiardToSqlite._get_element_text, as the parsers call it
GetElementText ==
    /\ element_text = <<>>
    /\ element_text' = << get_element_text(Parent(lookup), PathOf(lookup),
                                    xpath_nsmap(NsmapOf(lookup.style))) >>
    /\ UNCHANGED lookup

(***************************************************************************)
(* Specifications                                                          *)
(***************************************************************************)
InitSanitize == SanitizeInit /\ TypeIdle /\ QueryIdle /\ ImportIdle /\ ConvertIdle /\ LookupIdle

NextSanitize == (Sanitize \/ SanitizeAgain) /\ UNCHANGED <<typeVars, queryVars, importVars, convertVars, lookupVars>>

SpecSanitize == InitSanitize /\ [][NextSanitize]_vars

InitTypeMapping == TypeInit /\ SanIdle /\ QueryIdle /\ ImportIdle /\ ConvertIdle /\ LookupIdle

NextTypeMapping == MapType /\ UNCHANGED <<sanVars, queryVars, importVars, convertVars, lookupVars>>

SpecTypeMapping == InitTypeMapping /\ [][NextTypeMapping]_vars

InitQuery == QueryInit /\ SanIdle /\ TypeIdle /\ ImportIdle /\ ConvertIdle /\ LookupIdle

NextQuery == ConvertQuery /\ UNCHANGED <<sanVars, typeVars, importVars, convertVars, lookupVars>>

SpecQuery == InitQuery /\ [][NextQuery]_vars

InitImport == ImportInit /\ SanIdle /\ TypeIdle /\ QueryIdle /\ ConvertIdle /\ LookupIdle

NextImport == ImportTableData /\ UNCHANGED <<sanVars, typeVars, queryVars, convertVars, lookupVars>>

SpecImport == InitImport /\ [][NextImport]_vars

InitConvert == ConvertInit /\ SanIdle /\ TypeIdle /\ QueryIdle /\ ImportIdle /\ LookupIdle

NextConvert ==
    (ParseMetadata \/ CreateSqliteDatabase)
        /\ UNCHANGED <<sanVars, typeVars, queryVars, importVars, lookupVars>>

SpecConvert == InitConvert /\ [][NextConvert]_vars

InitMain == MainInit /\ SanIdle /\ TypeIdle /\ QueryIdle /\ ImportIdle /\ LookupIdle

NextMain ==
    (ParseMetadata \/ CreateSqliteDatabase \/ ImportData)
        /\ UNCHANGED <<sanVars, typeVars, queryVars, importVars, lookupVars>>

SpecMain == InitMain /\ [][NextMain]_vars

InitColumns == ColumnsInit /\ SanIdle /\ TypeIdle /\ QueryIdle /\ ImportIdle /\ LookupIdle

SpecColumns == InitColumns /\ [][NextConvert]_vars

InitLookup ==
    LookupInit /\ SanIdle /\ TypeIdle /\ QueryIdle /\ ImportIdle /\ ConvertIdle

NextLookup ==
    GetElementText
        /\ UNCHANGED <<sanVars, typeVars, queryVars, importVars, convertVars>>

SpecLookup == InitLookup /\ [][NextLookup]_vars

InitCalls == CallsInit /\ SanIdle /\ TypeIdle /\ QueryIdle /\ ImportIdle /\ LookupIdle

NextCalls ==
    (ExtractSiard \/ ParseMetadata \/ CreateSqliteDatabase \/ CreateSqliteDatabaseFails
         \/ ImportData \/ ImportDataFails \/ ConvertAgain)
        /\ UNCHANGED <<sanVars, typeVars, queryVars, importVars, lookupVars>>

SpecCalls == InitCalls /\ [][NextCalls]_vars

(***************************************************************************)
(* Claims                                                                  *)
(***************************************************************************)
\* C3: sanitizing a sanitized name changes nothing, also when the first
\* application added the prefix col_ or substituted unnamed.
C3_Idempotent ==
    Len(sanitized) = 2 => sanitized[2] = sanitized[1]

\* a name that got the prefix has been sanitized twice
C3_Witness ==
    /\ Len(sanitized) = 2
    /\ name # <<>> /\ isdigit(name[1])
    /\ SubSeq(sanitized[2], 1, 4) = col_prefix

\* C4: the sanitized name is not empty, holds only alphanumerics and
\* underscores, does not start with a digit, is unnamed for the empty name,
\* is col_ followed by the replaced name for a name starting with a digit,
\* and has the length of the name in every other case.
C4_Sanitized ==
    Len(sanitized) >= 1 =>
        LET out == sanitized[1]
        IN  /\ out # <<>>
            /\ \A i \in 1..Len(out) : IsWordChar(out[i])
            /\ ~isdigit(out[1])
            /\ name = <<>> => out = unnamed
            /\ (name # <<>> /\ isdigit(name[1])) =>
                   /\ SubSeq(out, 1, 4) = col_prefix
                   /\ Len(out) = Len(name) + 4
            /\ (name # <<>> /\ ~isdigit(name[1])) =>
                   /\ Len(out) = Len(name)
                   /\ \A i \in 1..Len(name) :
                          out[i] = IF IsWordChar(name[i]) THEN name[i] ELSE "_"

\* a name starting with a non-ASCII digit and holding a character outside
\* \w has been sanitized
C4_Witness ==
    /\ Len(sanitized) >= 1
    /\ Len(name) = 3 /\ name[1] = "SUP2" /\ name[2] = "-"

CharacterTypes ==
    {<<"C","H","A","R","A","C","T","E","R">>,
     <<"V","A","R","C","H","A","R">>,
     <<"C","H","A","R">>,
     <<"T","E","X","T">>,
     <<"C","L","O","B">>}

TemporalTypes ==
    {<<"D","A","T","E">>,
     <<"T","I","M","E">>,
     <<"T","I","M","E","S","T","A","M","P">>,
     <<"D","A","T","E","T","I","M","E">>}

IntegerTypes ==
    {<<"I","N","T","E","G","E","R">>,
     <<"I","N","T">>,
     <<"B","I","G","I","N","T">>,
     <<"S","M","A","L","L","I","N","T">>,
     <<"T","I","N","Y","I","N","T">>}

BooleanTypes ==
    {<<"B","O","O","L","E","A","N">>,
     <<"B","O","O","L">>}

RealTypes ==
    {<<"D","E","C","I","M","A","L">>,
     <<"N","U","M","E","R","I","C">>,
     <<"F","L","O","A","T">>,
     <<"D","O","U","B","L","E">>,
     <<"R","E","A","L">>}

BinaryTypes ==
    {<<"B","L","O","B">>,
     <<"B","I","N","A","R","Y">>,
     <<"V","A","R","B","I","N","A","R","Y">>}

\* C10: every type name gets one storage type of TEXT, INTEGER, REAL and
\* BLOB, decided by the name without regard to letter case: the character
\* and temporal families get TEXT, the integer family and boolean INTEGER,
\* decimal, numeric, float, double and real REAL, the binary family BLOB,
\* and every other name TEXT.
C10_TypeMapping ==
    sqlite_type # <<>> =>
        LET u == upper(column_type)
            storage == sqlite_type[1]
        IN  /\ storage \in {"TEXT", "INTEGER", "REAL", "BLOB"}
            /\ u \in CharacterTypes \cup TemporalTypes => storage = "TEXT"
            /\ u \in IntegerTypes \cup BooleanTypes => storage = "INTEGER"
            /\ u \in RealTypes => storage = "REAL"
            /\ u \in BinaryTypes => storage = "BLOB"
            /\ u \notin CharacterTypes \cup TemporalTypes \cup IntegerTypes
                     \cup BooleanTypes \cup RealTypes \cup BinaryTypes
                   => storage = "TEXT"

\* a type name of the real family written in lower case has been mapped
C10_Witness ==
    /\ column_type = <<"d","o","u","b","l","e">>
    /\ sqlite_type = <<"REAL">>

\* the view query of the end-to-end scenario
C7_ScenarioQuery ==
    <<"C","R","E","A","T","E"," ","A","L","G","O","R","I","T","H",
            "M","=","U","N","D","E","F","I","N","E","D"," ","V","I","E",
            "W"," ","v"," ","A","S"," ","S","E","L","E","C","T"," ","a",
            ",","b"," ","F","R","O","M"," ","t"," ","W","H","E","R","E",
            " ","f","l","a","g","=","t","r","u","e"," ","L","I","M","I",
            "T"," ","5"," ","O","F","F","S","E","T"," ","2",";">>

\* C7: for a view query CREATE [vendor clauses] VIEW <name> AS <select>[;]
\* the translator returns the select statement alone, every LIMIT a OFFSET b
\* written LIMIT b OFFSET a, every bare true and false written 1 and 0, and
\* without the terminator; the query of the scenario becomes
\* SELECT a,b FROM t WHERE flag=1 LIMIT 2 OFFSET 5.
C7_CreateViewTranslated ==
    (sqlite_query # <<>> /\ view_query.create # <<>> /\ view_query.term <= 1) =>
        /\ sqlite_query[1] =
               view_query.select[2] \o view_query.where[2] \o view_query.limit[2]
        /\ QueryText(view_query) = C7_ScenarioQuery =>
               sqlite_query[1] = <<"S","E","L","E","C","T"," ","a",",","b"," ","F","R","O","M",
            " ","t"," ","W","H","E","R","E"," ","f","l","a","g","=","1",
            " ","L","I","M","I","T"," ","2"," ","O","F","F","S","E","T",
            " ","5">>

\* the view query of the scenario has been translated
C7_Witness ==
    /\ sqlite_query # <<>>
    /\ QueryText(view_query) = C7_ScenarioQuery

\* the cell of column i in the row element that the r-th row of the table
\* was read from
SourceCell(r, i) == RowCells(table_info, data_file.rows[table_rows[r].src])[i]

\* the rows of the table and the columns of each
StoredCells ==
    {<<r, i>> : r \in 1..Len(table_rows), i \in 1..Len(table_info.columns)}

\* C2: importing a row-data document with the whole-document strategy and
\* with the incremental strategy puts the same rows with the same values
\* into the table, whether or not the row and value elements of the
\* document are in an XML namespace.
C2_SameRows ==
    imported =>
        /\ table_rows = import_table_data(table_info,
                            TableDocument(table_info, data_file))
        /\ table_rows = import_table_data_streaming(table_info,
                            TableDocument(table_info, data_file))

\* the integer the claim gives for the text of a BOOLEAN column
BooleanOf(text) ==
    IF lower(strip(text)) \in {<<"t","r","u","e">>, <<"1">>} THEN IntegerValue(1)
    ELSE IntegerValue(0)

\* C5: in both import strategies, a value of a column with the source type
\* BOOLEAN that is not nil is stored as 1 for the texts true and 1, and as 0
\* for the texts false and 0 and for any other text, whatever the case of
\* the letters and the spaces around the text.
C5_BooleanCoercion ==
    imported =>
        \A c \in StoredCells :
            (/\ upper(table_info.columns[c[2]].original_type) = <<"B","O","O","L","E","A","N">>
             /\ SourceCell(c[1], c[2]).elem
             /\ SourceCell(c[1], c[2]).nil # <<"t","r","u","e">>
             /\ SourceCell(c[1], c[2]).text # None)
                => table_rows[c[1]].values[c[2]]
                       = BooleanOf(SourceCell(c[1], c[2]).text)

C5_Witness ==
    /\ imported /\ data_file.large /\ Len(table_rows) = 3
    /\ table_info.columns[1].original_type = <<"b","o","o","l","e","a","n">>
    /\ SourceCell(1, 1).text = <<"y","e","s">>
    /\ table_rows[1].values[1] = IntegerValue(0)
    /\ table_rows[2].values[1] = IntegerValue(1)

\* C6: in both import strategies, a value element with the nil attribute
\* (xsi:nil="true") is stored as NULL, whatever the storage type and the
\* source type of the column and whatever the text of the element.
C6_NilIsNull ==
    imported =>
        \A c \in StoredCells :
            (SourceCell(c[1], c[2]).elem /\ SourceCell(c[1], c[2]).nil = <<"t","r","u","e">>)
                => table_rows[c[1]].values[c[2]] = Null

C6_Witness ==
    /\ imported /\ ~data_file.large /\ Len(table_rows) = 1
    /\ table_info.columns[1].type = "INTEGER"
    /\ SourceCell(1, 1).nil = <<"t","r","u","e">> /\ SourceCell(1, 1).text = <<"4","2">>
    /\ table_rows[1].values[1] = Null

(***************************************************************************)
(* Metadata model builder and schema materializer                          *)
(***************************************************************************)
\* the descriptor tree of the document written without namespace
TreeWithoutNamespace ==
    parse_metadata(RootElement(<<>>, metadata_xml.n, metadata_xml.schemas), <<>>)

\* C1: the descriptor tree _parse_metadata builds for a document is the
\* tree it builds for the same document with its elements in no namespace,
\* whether the document has no namespace, a default namespace or a
\* prefixed namespace
C1_SameTree == pc # "extracted" => schemas = TreeWithoutNamespace

\* the schema shapes of the document that have a name
NamedSchemas == SelectSeq(metadata_xml.schemas, LAMBDA s : s.named)

\* a text of the document is there and not blank
Given(text) == text # None /\ strip(text) # <<>>

\* the column element has a name and a type
UsableColumn(c) == Given(c.name) /\ Given(c.type)

\* the table element has a name and a column with a name and a type
UsableTable(t) == t.named /\ \E j \in 1..Len(t.columns) : UsableColumn(t.columns[j])

\* the positions of the table elements of a schema that are usable
UsableTables(s) == {k \in 1..Len(s.tables) : UsableTable(s.tables[k])}

\* the positions, among the table elements, of the table descriptors
TableIndexes(schema) == {schema.tables[j].table_index : j \in 1..Len(schema.tables)}

\* the schema descriptors are those of the named schemas of the document,
\* and a document with a prefixed namespace has none
SchemasParsed ==
    Len(schemas) = IF metadata_xml.style = "prefixed" THEN 0 ELSE Len(NamedSchemas)

\* C8: every table descriptor of the tree has at least one column, and
\* every column descriptor a name and a type; the table descriptors of a
\* schema are those of its table elements that have a name and a column
\* with a name and a type, in their order, and the views of a schema with
\* a table element are parsed, whatever table elements were left out
C8_NoTableWithoutColumn ==
    pc # "extracted" =>
        /\ SchemasParsed
        /\ \A i \in 1..Len(schemas) :
               /\ \A j \in 1..Len(schemas[i].tables) :
                      /\ schemas[i].tables[j].columns # <<>>
                      /\ \A c \in Range(schemas[i].tables[j].columns) :
                             Truthy(c.name) /\ Truthy(c.original_type)
                      /\ \A l \in 1..(j - 1) :
                             schemas[i].tables[l].table_index
                                 < schemas[i].tables[j].table_index
               /\ TableIndexes(schemas[i]) = UsableTables(NamedSchemas[i])
               /\ NamedSchemas[i].tables # <<>> =>
                      Len(schemas[i].views) = Len(NamedSchemas[i].views)

\* C8: the first table element of a schema has column elements but none
\* with a name and a type; the descriptor of the second table element is
\* the only one of the schema, and the views of the schema were parsed
C8_Witness ==
    /\ pc = "parsed"
    /\ schemas # <<>>
    /\ NamedSchemas[1].tables # <<>>
    /\ NamedSchemas[1].tables[1].named
    /\ NamedSchemas[1].tables[1].columns # <<>>
    /\ ~UsableTable(NamedSchemas[1].tables[1])
    /\ Len(schemas[1].tables) = 1
    /\ schemas[1].tables[1].table_index = 2
    /\ schemas[1].views # <<>>

\* the foreignKey element names the table it references
ResolvableForeignKey(f) == Given(f.table)

\* the foreignKey elements of a table element that name their table
ResolvableForeignKeys(t) == SelectSeq(t.fks, ResolvableForeignKey)

\* the table element of the j-th table descriptor of the i-th schema
TableShapeOf(i, j) == NamedSchemas[i].tables[schemas[i].tables[j].table_index]

\* the table descriptors before the j-th of the i-th schema, in the order
\* in which the tables are created
TablesBefore(i, j) ==
    all_tables(SubSeq(schemas, 1, i - 1)) \o SubSeq(schemas[i].tables, 1, j - 1)

\* the tables of the database with the name
TablesNamed(table_name) ==
    SelectSeq(database.tables, LAMBDA t : t.name = table_name)

\* C9: every foreign-key descriptor of the tree has a referenced table
\* that is not empty; a table element with a foreignKey element that names
\* no table has its descriptor if it has a name and a column, with the
\* foreign keys of its other foreignKey elements only, and the table is
\* created (unless a table created before has its name) with the FOREIGN
\* KEY constraints of these foreign keys only
C9_UnresolvedForeignKeyDropped ==
    pc # "extracted" =>
        /\ SchemasParsed
        /\ \A i \in 1..Len(schemas) :
               /\ UsableTables(NamedSchemas[i]) \subseteq TableIndexes(schemas[i])
               /\ \A j \in 1..Len(schemas[i].tables) :
                      /\ \A fk \in Range(schemas[i].tables[j].foreign_keys) :
                             Truthy(fk.referenced_table)
                      /\ Len(schemas[i].tables[j].foreign_keys)
                             = Len(ResolvableForeignKeys(TableShapeOf(i, j)))
                      /\ (/\ pc = "created"
                          /\ lower(schemas[i].tables[j].name)
                                 \notin NamesOf(TablesBefore(i, j)))
                         => /\ Len(TablesNamed(schemas[i].tables[j].name)) = 1
                            /\ Len(TablesNamed(schemas[i].tables[j].name)[1].foreign_keys)
                                   = Len(ResolvableForeignKeys(TableShapeOf(i, j)))
                            /\ \A fk \in Range(TablesNamed(schemas[i].tables[j].name)[1].foreign_keys) :
                                   Truthy(fk.referenced_table)

\* C9: a table element has a foreignKey element with a blank referenced
\* table and one that names its table; its descriptor has one foreign key
\* and the table was created with one FOREIGN KEY constraint
C9_Witness ==
    /\ pc = "created"
    /\ schemas # <<>>
    /\ schemas[1].tables # <<>>
    /\ Len(NamedSchemas[1].tables[1].fks) = 2
    /\ ~ResolvableForeignKey(NamedSchemas[1].tables[1].fks[1])
    /\ schemas[1].tables[1].table_index = 1
    /\ Len(schemas[1].tables[1].foreign_keys) = 1
    /\ database.tables # <<>>
    /\ database.tables[1].name = schemas[1].tables[1].name
    /\ Len(database.tables[1].foreign_keys) = 1
    /\ database.tables[1].foreign_keys[1].referenced_table = <<"t","1">>

(***************************************************************************)
(* Data importer: rows, batches and failures                               *)
(***************************************************************************)
\* the row elements of the data document
RowElements == TableDocument(table_info, data_file).kids

\* the values the strategy of the import binds for the k-th row element
RowValues(k) ==
    IF data_file.large THEN row_data_streaming(table_info, RowElements[k])
    ELSE row_data(table_info, RowElements[k])

\* the store rejects the values of the k-th row element
Rejected(k) == ~Accepts(table_info, RowValues(k))

\* the row elements with values the store rejects
RejectedRows == {k \in 1..Len(data_file.rows) : Rejected(k)}

\* the rows of the table that were read from the k-th row element
RowsFrom(k) == {r \in 1..Len(table_rows) : table_rows[r].src = k}

\* C12: when the store rejects no row, the table has one row for each row
\* element of the data document, in the order of the document, after the
\* import with either strategy, whatever the number of rows (also one that
\* is not a multiple of the batch size)
C12_OneRowPerElement ==
    (imported /\ RejectedRows = {}) =>
        /\ Len(table_rows) = Len(data_file.rows)
        /\ \A k \in 1..Len(table_rows) : table_rows[k].src = k

\* C15: a row the store rejects does not end the import of the table: the
\* row elements after it that the store accepts are in the table (stated
\* for documents in the namespace of SIARD table documents)
C15_RowsAfterFailureImported ==
    (imported /\ data_file.namespaced) =>
        \A j, k \in 1..Len(data_file.rows) :
            (j < k /\ Rejected(j) /\ ~Rejected(k)) => RowsFrom(k) # {}

\* the storage type of the column is INTEGER without the source type
\* BOOLEAN, or REAL
IsNumberColumn(col) ==
    \/ col.type = "INTEGER" /\ upper(col.original_type) # <<"B","O","O","L","E","A","N">>
    \/ col.type = "REAL"

\* C18: in both import strategies, the value stored for a value element
\* that is not nil, in an integer (not boolean) or real column, is a
\* number or NULL and never a text, whatever the text of the element
C18_NumberOrNull ==
    imported =>
        \A c \in StoredCells :
            (/\ IsNumberColumn(table_info.columns[c[2]])
             /\ SourceCell(c[1], c[2]).elem
             /\ SourceCell(c[1], c[2]).nil # <<"t","r","u","e">>)
                => table_rows[c[1]].values[c[2]].t \in {"INTEGER", "REAL", "NULL"}

\* the first row element with values the store rejects
FirstRejected == Least(RejectedRows)

\* the first and the last row element of the batch of the k-th row element
BatchStart(k) == ((k - 1) \div BATCH_SIZE) * BATCH_SIZE + 1

BatchEnd(k) ==
    IF BatchStart(k) + BATCH_SIZE - 1 <= Len(data_file.rows)
    THEN BatchStart(k) + BATCH_SIZE - 1
    ELSE Len(data_file.rows)

\* C19: when the insertion of a batch fails in the incremental strategy,
\* the rows of the batches inserted before it are in the table, once each,
\* and the rows of the failing batch from the rejected row on are not in
\* the table
C19_FailedBatch ==
    (imported /\ data_file.large /\ data_file.namespaced /\ RejectedRows # {}) =>
        /\ \A k \in 1..(BatchStart(FirstRejected) - 1) : Cardinality(RowsFrom(k)) = 1
        /\ \A k \in FirstRejected..BatchEnd(FirstRejected) : RowsFrom(k) = {}

\* C19: the first batch was inserted and the store rejects the first row
\* of the second batch, which is followed by no row: the table has the
\* rows of the first batch only
C19_Witness ==
    /\ imported /\ data_file.large /\ data_file.namespaced
    /\ Len(data_file.rows) > BATCH_SIZE
    /\ RejectedRows # {}
    /\ FirstRejected = BATCH_SIZE + 1
    /\ Len(table_rows) = BATCH_SIZE
    /\ \A k \in 1..BATCH_SIZE : table_rows[k].src = k

\* C25: after an import with the incremental strategy, no row element of
\* the data document is in the table more than once
C25_NoRowTwice ==
    (imported /\ data_file.large) =>
        \A k \in 1..Len(data_file.rows) : Cardinality(RowsFrom(k)) <= 1

(***************************************************************************)
(* Schema materializer: order and counts; primary keys                     *)
(***************************************************************************)
\* the names of the descriptors, in their order
NameSeq(descriptors) == [i \in 1..Len(descriptors) |-> descriptors[i].name]

\* the names of the tables of the tree, schema after schema and in each
\* schema in the order of the declarations, and likewise of the views
TableNamesInOrder ==
    Concat([i \in 1..Len(schemas) |-> NameSeq(schemas[i].tables)])

ViewNamesInOrder ==
    Concat([i \in 1..Len(schemas) |-> NameSeq(schemas[i].views)])

\* the attempts of a kind
AttemptsOf(kind) == SelectSeq(attempts, LAMBDA a : a.kind = kind)

\* C11: _create_sqlite_database attempts every table of every schema
\* before the first view, also when the creation of a table fails; the
\* tables are attempted schema after schema and in each schema in the order
\* of their declaration, and the views likewise
C11_TablesBeforeViews ==
    pc = "created" =>
        /\ \A i, j \in 1..Len(attempts) :
               (attempts[i].kind = "view" /\ attempts[j].kind = "table") => j < i
        /\ NameSeq(AttemptsOf("table")) = TableNamesInOrder
        /\ NameSeq(AttemptsOf("view")) = ViewNamesInOrder

\* C11: the first schema has views and the second a table of the name of a
\* table of the first, so that its creation fails: the table was attempted
\* before the views of the first schema
C11_Witness ==
    /\ pc = "created"
    /\ Len(schemas) = 2
    /\ schemas[1].views # <<>>
    /\ schemas[2].tables # <<>>
    /\ tables_created < Len(AttemptsOf("table"))
    /\ Len(attempts) = Len(TableNamesInOrder) + Len(ViewNamesInOrder)
    /\ attempts[Len(TableNamesInOrder)].name = schemas[2].tables[1].name
    /\ attempts[Len(TableNamesInOrder) + 1].name = schemas[1].views[1].name

\* C17: the counts _create_sqlite_database reports are the numbers of the
\* tables and of the views that were created: a view without query and a
\* view the store rejects are not counted
C17_CountsAreCreated ==
    pc = "created" =>
        /\ tables_created = Len(database.tables)
        /\ views_created = Len(database.views)

\* the primaryKey elements of a table element that name a column
KeysWithColumns(t) == SelectSeq(t.pks, LAMBDA k : k # <<>>)

\* the sanitized names
Sanitized(names) == [i \in 1..Len(names) |-> sanitize_name(names[i])]

\* the columns of the first primaryKey element of a table element
FirstKey(t) == IF t.pks = <<>> THEN <<>> ELSE Sanitized(t.pks[1])

\* the columns of the first primaryKey element that names a column
FirstKeyWithColumns(t) ==
    IF KeysWithColumns(t) = <<>> THEN <<>> ELSE Sanitized(KeysWithColumns(t)[1])

\* C20, as the specification has it: the primary key of a table
\* descriptor holds the columns of the first primaryKey element of the
\* table element, whatever this element contains
C20_FirstPrimaryKeyOnly ==
    pc # "extracted" =>
        \A i \in 1..Len(schemas) : \A j \in 1..Len(schemas[i].tables) :
            schemas[i].tables[j].primary_key = FirstKey(TableShapeOf(i, j))

\* C20: the primary key of a table descriptor holds the columns of the
\* first primaryKey element of the table element that names at least one
\* column; the primaryKey elements after this one are ignored
C20_FirstPrimaryKeyWithColumns ==
    pc # "extracted" =>
        \A i \in 1..Len(schemas) : \A j \in 1..Len(schemas[i].tables) :
            schemas[i].tables[j].primary_key = FirstKeyWithColumns(TableShapeOf(i, j))

\* C20: a table element has two primaryKey elements that name different
\* columns, and the descriptor has the column of the first only
C20_Witness ==
    /\ pc = "parsed"
    /\ schemas # <<>>
    /\ schemas[1].tables # <<>>
    /\ Len(KeysWithColumns(TableShapeOf(1, 1))) = 2
    /\ schemas[1].tables[1].primary_key = <<<<"i","d">>>>

(***************************************************************************)
(* The run of the command line: fatal errors and options                   *)
(***************************************************************************)
\* the metadata document is absent or is not well-formed XML
Unreadable == metadata_xml.file \in {"absent", "malformed"}

\* C13: when header/metadata.xml is absent or is not well-formed XML, the
\* step after the extraction ends the run: convert raises and the process
\* exits with status 1, and the step changes neither the database at the
\* output path nor its rows and attempts no statement; the creation of the
\* database and the import of the data never run
C13_UnreadableMetadataIsFatal ==
    /\ [](Unreadable =>
             /\ pc \in {"extracted", "failed"}
             /\ pc = "failed" <=> exit_status = <<1>>
             /\ schemas = <<>>
             /\ attempts = <<>>)
    /\ [][Unreadable =>
             UNCHANGED <<database, table_data, tables_created, views_created>>]_vars

\* C13: a run with a malformed metadata document has failed, and the
\* database that was at the output path is there with its rows
C13_Witness ==
    /\ metadata_xml.file = "malformed"
    /\ pc = "failed"
    /\ exit_status = <<1>>
    /\ database = OldDatabase
    /\ table_data = OldRows

\* C14: a run whose metadata document yields no schema descriptor is not
\* reported as a completed conversion
C14_NoSchemasIsFatal ==
    (~Unreadable /\ schemas = <<>> /\ pc \notin {"extracted", "parsed"})
        => pc = "failed" /\ exit_status = <<1>>

\* the FOREIGN KEY constraints of the tables of the database
ForeignKeyConstraints ==
    Concat([i \in 1..Len(database.tables) |-> database.tables[i].foreign_keys])

\* C16: after a conversion with --no-views the database has no view, and
\* after one with --no-foreign-keys no table has a FOREIGN KEY constraint
C16_OptionsHonoured ==
    (pc = "converted" /\ schemas # <<>>) =>
        /\ args.no_views => database.views = <<>>
        /\ args.no_foreign_keys => ForeignKeyConstraints = <<>>

(***************************************************************************)
(* View query translator: the statement terminators                        *)
(***************************************************************************)
\* the select statement of a view query in the dialect of the store
TranslatedSelect ==
    view_query.select[2] \o view_query.where[2] \o view_query.limit[2]

\* C24 as stated: the translator removes exactly one trailing terminator:
\* of the semicolons a view query ends with, all but the last one are kept
C24_OneTerminatorRemoved ==
    (sqlite_query # <<>> /\ view_query.term >= 1) =>
        sqlite_query[1] = TranslatedSelect \o Semicolons(view_query.term - 1)

\* C24: the translator removes every trailing terminator: the translation
\* of a view query that ends with one or more semicolons ends with none
C24_EveryTerminatorRemoved ==
    (sqlite_query # <<>> /\ view_query.term >= 1) =>
        sqlite_query[1] = TranslatedSelect

\* C24: a view query that ends with two or more semicolons has been
\* translated
C24_Witness ==
    /\ sqlite_query # <<>>
    /\ view_query.term >= 2
    /\ sqlite_query[1][Len(sqlite_query[1])] # ";"

(***************************************************************************)
(* Columns: NOT NULL and the boolean types                                 *)
(***************************************************************************)
\* the column element of a document with one table of one column
TheColumn == metadata_xml.schemas[1].tables[1].columns[1]

\* the nullable element of the column has the text false
StatesNotNullable ==
    TheColumn.nullable # None /\ strip(TheColumn.nullable) = <<"f","a","l","s","e">>

\* the table of the document has been created
ColumnCreated ==
    /\ pc = "created"
    /\ Len(metadata_xml.schemas) = 1
    /\ Len(database.tables) = 1
    /\ Len(schemas) = 1

C29_BooleanNeverNotNull ==
    (ColumnCreated /\ upper(TheColumn.type) \in BooleanTypes) =>
        ~database.tables[1].column_defs[1].not_null

(***************************************************************************)
(* Metadata model builder: the views of a schema                           *)
(***************************************************************************)
\* C28: the views of a schema descriptor are the view elements of its
\* schema, in their order, whether or not the schema has a table element
C28_EveryViewParsed ==
    (pc # "extracted" /\ metadata_xml.style # "prefixed") =>
        /\ Len(schemas) = Len(NamedSchemas)
        /\ \A i \in 1..Len(schemas) :
               NameSeq(schemas[i].views) = NameSeq(NamedSchemas[i].views)

(***************************************************************************)
(* Scalar field lookups: the cascade of strategies                         *)
(***************************************************************************)
\* the text the cascade of C21 gives for a parent with at most one element
\* of the field and at most one element name: every strategy that looks
\* for the field finds its element, the alias of n is name, and an element
\* without text or with a blank text is passed over
CascadeText ==
    IF lookup.text # <<"absent">> /\ Given(lookup.text) THEN strip(lookup.text)
    ELSE IF lookup.field = <<"n">> /\ lookup.other # <<"absent">> THEN strip(lookup.other)
    ELSE None

\* C21: for every field, _get_element_text returns the text of the first
\* strategy, in the order qualified path, unqualified name, local name,
\* alias names, direct children, that gives a text that is not blank, and
\* None when no strategy gives one
C21_FirstNonEmptyWins == element_text # <<>> => element_text[1] = CascadeText

(***************************************************************************)
(* Data files, store tables and the calls of convert                       *)
(***************************************************************************)
\* the folder of the data files of the archive, which all lie in one
DataFolder == << (CHOOSE p \in DOMAIN content : TRUE)[1] >>

\* the names of C23 for the data file of a table with ordinal N and name T
\* in the folder F, in their order
DataFileNames(F, N, T) ==
    << F \o << <<"t","a","b","l","e">> \o str(N), <<"t","a","b","l","e">> \o str(N) \o <<".","x","m","l">> >>,
       F \o << <<"t","a","b","l","e">> \o str(N) \o <<".","x","m","l">> >>,
       F \o << T \o <<".","x","m","l">> >>,
       F \o << T, T \o <<".","x","m","l">> >> >>

\* those of the names under which the archive has a file
ExistingFiles(t) ==
    SelectSeq(DataFileNames(DataFolder, t.table_index, t.name),
              LAMBDA p : p \in DOMAIN content)

\* the rows of the store table of the name of a table descriptor
RowsOf(t) ==
    table_data[CHOOSE k \in 1..Len(database.tables) : database.tables[k].name = t.name]

\* the rows are those of the row elements of the data file at the path,
\* one for each and in their order
RowsAreThoseOf(rows, path) ==
    /\ Len(rows) = Len(content[path].rows)
    /\ \A r \in 1..Len(rows) : rows[r].file = path /\ rows[r].src = r

\* a conversion of a document with one schema has ended, and the folder of
\* the data files is one the importer uses for the schema
OneSchemaConverted ==
    /\ pc = "converted"
    /\ Len(schemas) = 1
    /\ content # NoContent
    /\ DataFolder \in {<<schemas[1].folder>>, <<schemas[1].name>>}

\* C23: the rows of a table with ordinal N and name T in the schema folder
\* F are those of the first existing file of F/tableN/tableN.xml,
\* F/tableN.xml, F/T.xml, F/T/T.xml; when none exists the table has no
\* rows, and the tables after it are imported
C23_FirstExistingFile ==
    OneSchemaConverted =>
        \A j \in 1..Len(schemas[1].tables) :
            IF ExistingFiles(schemas[1].tables[j]) = <<>>
            THEN RowsOf(schemas[1].tables[j]) = <<>>
            ELSE RowsAreThoseOf(RowsOf(schemas[1].tables[j]),
                                ExistingFiles(schemas[1].tables[j])[1])

\* C23: the archive has a data file for the first table under every name
\* but the first, and the table has the rows of the file of the second name
C23_Witness ==
    /\ OneSchemaConverted
    /\ DOMAIN content = FirstTableFiles \ {<<<<"f">>, <<"t","a","b","l","e","1">>, <<"t","a","b","l","e","1",".","x","m","l">>>>}
    /\ schemas[1].tables[1].table_index = 1
    /\ table_data[1] # <<>>
    /\ \A r \in 1..Len(table_data[1]) :
           table_data[1][r].file = <<<<"f">>, <<"t","a","b","l","e","1",".","x","m","l">>>>

\* C26: the rows of a store table were all imported for one table
\* descriptor
C26_OneDescriptorPerTable ==
    pc = "converted" =>
        \A i \in 1..Len(table_data) :
            \A r1, r2 \in 1..Len(table_data[i]) :
                table_data[i][r1].desc = table_data[i][r2].desc

\* C27: after every call of convert on a converter, the descriptor tree
\* is the tree of the metadata document, with each schema once, and each
\* table of the store has each row of a data file once
C27_SecondCallSameStore ==
    /\ pc \in {"parsed", "created", "converted"} =>
           schemas = parse_metadata(Root(metadata_xml), NsmapOf(metadata_xml.style))
    /\ pc = "converted" =>
           \A i \in 1..Len(table_data) :
               \A r1, r2 \in 1..Len(table_data[i]) :
                   (/\ table_data[i][r1].file = table_data[i][r2].file
                    /\ table_data[i][r1].src = table_data[i][r2].src) => r1 = r2

\* C30: when a call of convert has returned or raised after the extraction
\* had begun, the directory of the extraction does not exist; also when
\* the extraction, the parsing of the metadata, the creation of the
\* database or the import of the data has failed, and also before and
\* after a second call
C30_TempDirRemoved ==
    /\ pc \in {"converted", "failed"} => temp_dir = "removed"
    /\ pc = "called" => temp_dir \in {"None", "removed"}

\* C30: the import of the data has failed, after the database was created,
\* and the directory of the extraction was removed
C30_Witness ==
    /\ pc = "failed"
    /\ calls = 1
    /\ tables_created > 0
    /\ temp_dir = "removed"

=============================================================================
